---- MODULE Spec2Model ----
(***************************************************************************)
(* The chain component of the node (pkg/core/chain/chain.go): the Listen   *)
(* loop, its handlers, AcceptBlock, the round-update goroutines and the    *)
(* gRPC call RebuildChain, over small sets of blocks, certificates and     *)
(* collaborator outcomes.                                                  *)
(***************************************************************************)
EXTENDS Integers, Sequences, FiniteSets, TLC

VARIABLES
    tip,              \* Chain.tip: the block held by the lastBlockProvider
    p,                \* Chain.p: the provisioner set (0 = user.NewProvisioners())
    counter,          \* Chain.counter: blocks remaining of the chainsync.Counter
    lastCertificate,  \* Chain.lastCertificate
    lastCommittee,    \* Chain.lastCommittee: the round whose committee's keys it
                      \* holds (0 = make([][]byte, 0))
    loader,           \* the blocks held by the Loader, oldest first
    goroutines,       \* round updates handed to `go func() { sendRoundUpdate(ru) }`
    panicked,         \* log.Panic was reached: the process is gone
    last,             \* what the most recent step did (history, for the properties)
    race,             \* AcceptBlock and RebuildChain as they run statement by
                      \* statement on their two goroutines (SpecRace)
    consensus,        \* the consensus loop subscribed to StopConsensus and
                      \* RoundUpdate ("none": no loop is subscribed)
    cancelled,        \* the root context handed to New was cancelled
    red,              \* the reduction coordinator: begin(), end(), the two
                      \* eventStopWatches and the channels begin() sends on
    sr,               \* the SigSetReducer: Listen and Collect
    sa,               \* the StakeAutomaton: AutomateConsensusTxs, Listen, sendStake
    wire,             \* a header or certificate on its way through Marshal and Unmarshal
    sortition,        \* a run of the committee sortition: its inputs and the committee
    sel,              \* the score selector: its state, timers and what it emitted
    bg,               \* the candidate Generator: its round and what Collect sent
    sec,              \* a StepEventCollector: the events stored by step
    es,               \* an EventSubscriber, its two channels and its entries in the event bus
    nsr,              \* where a call of the NewSigSetReducer constructor stands
    legacy,           \* the legacy chain: its previous block and its database
    published         \* the rounds of the last two RoundUpdate publications

vars == <<tip, p, counter, lastCertificate, lastCommittee,
          loader, goroutines, panicked, last, race, consensus, cancelled,
          red, sr, sa, wire, sortition, sel, bg, sec, es, nsr, legacy, published>>

\* The variables of the Chain, and those of the consensus components.
chain == <<tip, p, counter, lastCertificate, lastCommittee,
           loader, goroutines, panicked, last, race, consensus, cancelled>>

components == <<red, sr, sa, wire, sortition, sel, bg, sec, es, nsr, legacy, published>>

(***************************************************************************)
(* Bounds of the model.                                                    *)
(***************************************************************************)
MaxHeight == 2      \* blocks are offered up to this height
MaxGap == 2         \* the largest gap the synchronizer starts a sync for
MaxPending == 1     \* round-update goroutines in flight at once
CommitteeSize == 4  \* members of a step committee (64 in the deployed network)

\* Provisioner sets the executor can answer with; 0 is the empty set.
Provs == {1, 2}
\* The provisioner set whose committees certify the blocks offered.
Signers == {1}

(***************************************************************************)
(* Blocks and certificates.                                                *)
(***************************************************************************)
RECURSIVE Popcount(_)
Popcount(b) == IF b = 0 THEN 0 ELSE (b % 2) + Popcount(b \div 2)

RECURSIVE Pow2(_)
Pow2(n) == IF n = 0 THEN 1 ELSE 2 * Pow2(n - 1)

Quorum == (2 * CommitteeSize) \div 3 + 1

\* A bitmap with exactly n members set.
Bitmap(n) == Pow2(n) - 1

EmptyCertificate == [step |-> 0, bm1 |-> 0, bm2 |-> 0, signedBy |-> 0]

\* The certificate field before any certificate was assigned: nil.
NilCertificate == [step |-> -1, bm1 |-> 0, bm2 |-> 0, signedBy |-> 0]

\* A certificate of step 2 whose two batched signatures were made by the
\* committees drawn from provisioner set s.
Certificate(n1, n2, s) == [step |-> 2, bm1 |-> Bitmap(n1), bm2 |-> Bitmap(n2), signedBy |-> s]

MerkleRoot(txs) == (3 * txs + 1) % 4

\* The hash over the hashable header fields: version, height, timestamp,
\* previous block hash and seed.
HeaderHash(b) ==
    (5 * b.height + 3 * b.timestamp + b.prevBlock + 2 * b.version + 7 * b.seed) % 4

SetHash(b) == [b EXCEPT !.hash = HeaderHash(b)]

Genesis ==
    SetHash([version |-> 0, height |-> 0, timestamp |-> 0, prevBlock |-> 0,
             seed |-> 3, txs |-> 0, txRoot |-> MerkleRoot(0), cert |-> EmptyCertificate,
             hash |-> 0])

\* The well-formed successor of block t, certified under provisioner set s.
NextBlock(t, s) ==
    SetHash([version |-> 0, height |-> t.height + 1, timestamp |-> t.timestamp + 1,
             prevBlock |-> t.hash, seed |-> (t.seed + 1) % 4, txs |-> 1, txRoot |-> MerkleRoot(1),
             cert |-> Certificate(Quorum, Quorum, s), hash |-> 0])

\* The ways an offered block can deviate from the well-formed successor.
Defects == {"none", "version", "prevBlock", "heightSame", "heightGap", "heightGapChained",
            "timestampSame", "txRoot", "hash", "bitmap1", "bitmap2"}

Defective(t, s, d) ==
    LET b == NextBlock(t, s) IN
    CASE d = "none" -> b
      [] d = "version" -> SetHash([b EXCEPT !.version = 1])
      [] d = "prevBlock" -> SetHash([b EXCEPT !.prevBlock = (t.hash + 1) % 4])
      [] d = "heightSame" -> SetHash([b EXCEPT !.height = t.height])
      [] d = "heightGap" -> SetHash([b EXCEPT !.height = t.height + 2])
      [] d = "heightGapChained" ->
            SetHash([b EXCEPT !.height = t.height + 2, !.timestamp = t.timestamp + 2,
                              !.prevBlock = NextBlock(t, s).hash])
      [] d = "timestampSame" -> SetHash([b EXCEPT !.timestamp = t.timestamp])
      [] d = "txRoot" -> SetHash([b EXCEPT !.txRoot = (MerkleRoot(1) + 1) % 4])
      [] d = "hash" -> [b EXCEPT !.hash = (b.hash + 1) % 4]
      [] d = "bitmap1" -> [b EXCEPT !.cert = Certificate(Quorum - 1, Quorum, s)]
      [] d = "bitmap2" -> [b EXCEPT !.cert = Certificate(Quorum, Quorum - 1, s)]

\* The blocks offered to a chain whose tip is t.
Blocks(t) ==
    {b \in {Defective(t, s, d) : s \in Signers, d \in Defects} : b.height <= MaxHeight}

(***************************************************************************)
(* Errors.                                                                 *)
(***************************************************************************)
NoErr == "nil"
ErrVersion == "unsupported block version"
ErrPrevBlock == "Previous block hash does not equal the previous hash in the current block"
ErrHeight == "current block height is not one plus the previous block height"
ErrTimestamp == "current timestamp is less than the previous timestamp"
ErrMerkle == "merkle root mismatch"
ErrHash == "block hash mismatch"
ErrCertificate == "certificate invalid"
ErrProvisioners == "Error in getting provisioners"
ErrExecutor == "Error in executing the state transition"
ErrStorage == "block storing failed"

ValidationErrors == {ErrVersion, ErrPrevBlock, ErrHeight, ErrTimestamp, ErrMerkle, ErrHash}

(***************************************************************************)
(* The verifier and the certificate check.                                 *)
(***************************************************************************)
checkBlockHeader_TimestampNotStrict(prev, blk) ==
    IF blk.version > 0 THEN ErrVersion
    ELSE IF blk.prevBlock # prev.hash THEN ErrPrevBlock
    ELSE IF blk.height # prev.height + 1 THEN ErrHeight
    ELSE IF blk.timestamp < prev.timestamp THEN ErrTimestamp
    ELSE IF blk.txRoot # MerkleRoot(blk.txs) THEN ErrMerkle
    ELSE NoErr

checkBlockHeader(prev, blk) ==
    IF blk.version > 0 THEN ErrVersion
    ELSE IF blk.prevBlock # prev.hash THEN ErrPrevBlock
    ELSE IF blk.height # prev.height + 1 THEN ErrHeight
    ELSE IF blk.timestamp <= prev.timestamp THEN ErrTimestamp
    ELSE IF blk.txRoot # MerkleRoot(blk.txs) THEN ErrMerkle
    ELSE NoErr

\* Verifier.SanityCheckBlock: the header checks, then the self-hash.
SanityCheckBlock(prevBlock, blk) ==
    LET e == checkBlockHeader(prevBlock, blk) IN
    IF e # NoErr THEN e
    ELSE IF blk.hash # HeaderHash(blk) THEN ErrHash
    ELSE NoErr

\* verifiers.CheckBlockCertificate: both bitmaps reach the quorum and both
\* batched signatures verify under the committees drawn from provisioners.
CheckBlockCertificate(provisioners, blk) ==
    IF Popcount(blk.cert.bm1) < Quorum \/ Popcount(blk.cert.bm2) < Quorum
    THEN ErrCertificate
    ELSE IF blk.cert.signedBy # provisioners THEN ErrCertificate
    ELSE NoErr

(***************************************************************************)
(* chainsync.Counter.                                                      *)
(***************************************************************************)
IsSyncing(n) == n > 0

Decrement(n) == IF n > 0 THEN n - 1 ELSE n

(***************************************************************************)
(* AcceptBlock (chain.go).  The handlers work on a record c of the Chain's *)
(* fields and extend c.ops, the calls and publications made, in order;     *)
(* c.err is what the handler (or AcceptBlock) returns.  env holds the      *)
(* outcomes of the collaborators: the executor and the loader.             *)
(***************************************************************************)
Op(name, arg) == [op |-> name, arg |-> arg]

Do(c, name, arg) == [c EXCEPT !.ops = Append(@, Op(name, arg))]

Return(c, e) == [c EXCEPT !.err = e]

Faults == {"none", "GetProvisioners", "ExecuteStateTransition", "Append"}

\* fault: the collaborator call that fails; provisioners: the executor's answer
\* to GetProvisioners.
Envs == {e \in [fault : Faults, provisioners : Provs] :
            e.fault = "none" \/ e.provisioners \in Signers}

\* The collaborators all succeed and the executor answers with the set the
\* offered blocks were certified under.
Healthy(env) == env.fault = "none" /\ env.provisioners \in Signers

\* The cases a handler is run on: a well-formed block with any outcome of the
\* collaborators, or any block with healthy collaborators.
Cases(t) ==
    LET wellFormed == {[blk |-> NextBlock(t, s), env |-> e] : s \in Signers, e \in Envs}
        defective == {[blk |-> b, env |-> [fault |-> "none", provisioners |-> b.cert.signedBy]] :
                         b \in Blocks(t)}
    IN  {cs \in wellFormed \cup defective : cs.blk.height <= MaxHeight}

\* The cases of a won agreement: the local agreement finalizes the round after
\* the tip, and the candidate fetched for it is well-formed, built on another
\* parent, not later than the tip, or certified by too few members.
CandidateDefects == {"none", "prevBlock", "timestampSame", "bitmap1"}

CandidateCases(t) ==
    LET wellFormed == {[blk |-> NextBlock(t, s), env |-> e] : s \in Signers, e \in Envs}
        defective == {[blk |-> Defective(t, s, d),
                       env |-> [fault |-> "none", provisioners |-> s]] :
                         s \in Signers, d \in CandidateDefects}
    IN  {cs \in wellFormed \cup defective : cs.blk.height <= MaxHeight}

\* The executor's answer to ExecuteStateTransition: the set the block's
\* transactions turn the refreshed set into.
ProvisionersAfter(env, blk) == env.provisioners + blk.txs

\* 6. publish AcceptedBlock, decrement the counter, return nil
acceptNotify_DecrementFirst(c, blk) ==
    LET c1 == [Do(c, "Decrement", 0) EXCEPT !.counter = Decrement(@)]
        c2 == Do(c1, "AcceptedBlock", blk.hash)
    IN  Return(c2, NoErr)

acceptNotify_DecrementTwice(c, blk) ==
    LET c1 == Do(c, "AcceptedBlock", blk.hash)
        c2 == [Do(c1, "Decrement", 0) EXCEPT !.counter = Decrement(@)]
        c3 == [Do(c2, "Decrement", 0) EXCEPT !.counter = Decrement(@)]
    IN  Return(c3, NoErr)

acceptNotify(c, blk) ==
    LET c1 == Do(c, "AcceptedBlock", blk.hash)
        c2 == [Do(c1, "Decrement", 0) EXCEPT !.counter = Decrement(@)]
    IN  Return(c2, NoErr)

\* Send Inventory message to all peers
advertiseBlock(c, b) == Do(c, "Inv", b.hash)

\* 5. gossip the block hash
acceptAdvertise(c, blk) == acceptNotify(advertiseBlock(c, blk), blk)

\* 4. store the approved block
acceptStore(c, blk, env) ==
    LET c1 == Do(c, "Append", blk.hash) IN
    IF env.fault = "Append" THEN Return(c1, ErrStorage)
    ELSE acceptAdvertise([c1 EXCEPT !.loader = Append(@, blk)], blk)

\* 3. ExecuteStateTransition, then c.p = &provisioners and c.tip.Set(&blk)
acceptExecute_TipBeforeExecutor(c, blk, env) ==
    LET c1 == Do([c EXCEPT !.tip = blk], "ExecuteStateTransition", blk.height) IN
    IF env.fault = "ExecuteStateTransition" THEN Return(c1, ErrExecutor)
    ELSE acceptStore(Do([c1 EXCEPT !.p = ProvisionersAfter(env, blk)], "tip.Set", blk.hash), blk, env)

acceptExecute(c, blk, env) ==
    LET c1 == Do(c, "ExecuteStateTransition", blk.height) IN
    IF env.fault = "ExecuteStateTransition" THEN Return(c1, ErrExecutor)
    ELSE acceptStore(Do([c1 EXCEPT !.p = ProvisionersAfter(env, blk), !.tip = blk], "tip.Set", blk.hash),
                     blk, env)

\* 2. check the certificate against the refreshed provisioners
acceptCertificate_ErrorIgnored(c, blk, env) ==
    acceptExecute(Do(c, "CheckBlockCertificate", blk.hash), blk, env)

acceptCertificate(c, blk, env) ==
    LET c1 == Do(c, "CheckBlockCertificate", blk.hash)
        e == CheckBlockCertificate(c1.p, blk)
    IN  IF e # NoErr THEN Return(c1, e) ELSE acceptExecute(c1, blk, env)

\* GetProvisioners, then c.p = &provisioners
acceptProvisioners(c, blk, env) ==
    LET c1 == Do(c, "GetProvisioners", 0) IN
    IF env.fault = "GetProvisioners" THEN Return(c1, ErrProvisioners)
    ELSE acceptCertificate([c1 EXCEPT !.p = env.provisioners], blk, env)

\* 1. prevBlock := c.tip.Get(), then the verifier's sanity check
acceptSanity_ErrorIgnored(c, blk, env) ==
    acceptProvisioners(Do(c, "SanityCheckBlock", blk.hash), blk, env)

acceptSanity(c, blk, env) ==
    LET prevBlock == c.tip
        c1 == Do(c, "SanityCheckBlock", blk.hash)
        e == SanityCheckBlock(prevBlock, blk)
    IN  IF e # NoErr THEN Return(c1, e) ELSE acceptProvisioners(c1, blk, env)

AcceptBlock(c, blk, env) ==
    acceptSanity([c EXCEPT !.called = TRUE, !.prevBlock = c.tip, !.err = NoErr], blk, env)

\* The operations of a run of AcceptBlock that publish on the event bus.
Publications == {"StopConsensus", "Inv", "AcceptedBlock", "RoundUpdate"}

(***************************************************************************)
(* Round updates.                                                          *)
(***************************************************************************)
getRoundUpdate_RoundOfTip(t, provisioners) ==
    [Round |-> t.height, P |-> provisioners, Seed |-> t.seed, Hash |-> t.hash]

getRoundUpdate(t, provisioners) ==
    [Round |-> t.height + 1, P |-> provisioners, Seed |-> t.seed, Hash |-> t.hash]

\* go func() { sendRoundUpdate(ru) }()
Go(c, ru) == [Do(c, "go sendRoundUpdate", ru.Round) EXCEPT !.spawned = Append(@, ru)]

(***************************************************************************)
(* The handlers of the Listen loop.                                        *)
(***************************************************************************)
beginAccepting_StopBeforeCheck(c, blk) ==
    IF ~IsSyncing(c.counter) THEN [Do(c, "StopConsensus", 0) EXCEPT !.began = FALSE]
    ELSE [Do(c, "StopConsensus", 0) EXCEPT !.began = TRUE]

beginAccepting(c, blk) ==
    IF ~IsSyncing(c.counter) THEN [c EXCEPT !.began = FALSE]
    ELSE [Do(c, "StopConsensus", 0) EXCEPT !.began = TRUE]

onAcceptBlock_RoundUpdateEveryAccept(c, blk, env) ==
    LET c1 == beginAccepting(c, blk) IN
    IF ~c1.began THEN c1
    ELSE LET c2 == AcceptBlock(c1, blk, env) IN
         IF c2.err # NoErr THEN c2
         ELSE Go([c2 EXCEPT !.lastCertificate = blk.cert], getRoundUpdate(c2.tip, c2.p))

onAcceptBlock(c, blk, env) ==
    LET c1 == beginAccepting(c, blk) IN
    IF ~c1.began THEN c1
    ELSE LET c2 == AcceptBlock(c1, blk, env) IN
         IF c2.err # NoErr THEN c2
         ELSE LET c3 == [c2 EXCEPT !.lastCertificate = blk.cert] IN
              IF ~IsSyncing(c3.counter)
              THEN Go(c3, getRoundUpdate(c3.tip, c3.p))
              ELSE c3

\* cMsg: the hash, certificate and committee of a won agreement; resp: the
\* answer of the GetCandidate request.
handleCertificateMessage(c, cMsg, resp, env) ==
    LET c1 == Do([c EXCEPT !.lastCertificate = cMsg.cert,
                           !.lastCommittee = cMsg.committee],
                 "GetCandidate", cMsg.hash)
    IN  IF ~resp.ok THEN [c1 EXCEPT !.err = "could not find winning candidate block"]
        ELSE LET blk == [resp.block EXCEPT !.cert = cMsg.cert]
                 c2 == AcceptBlock(c1, blk, env)
             IN  IF c2.err # NoErr THEN c2
                 ELSE Go(c2, getRoundUpdate(c2.tip, c2.p))

sendRoundUpdate(c, ru) == Do(c, "RoundUpdate", ru)

onInitialization(c) == sendRoundUpdate(c, getRoundUpdate(c.tip, c.p))

(***************************************************************************)
(* RebuildChain (gRPC).                                                    *)
(***************************************************************************)
RebuildFaults == {"none", "Clear", "LoadTip", "PerformSanityCheck", "ClearWalletDatabase"}

Panic(c) == [Do(c, "log.Panic", 0) EXCEPT !.panicked = TRUE]

resetState(c) == [c EXCEPT !.p = 0, !.lastCertificate = EmptyCertificate]

RebuildChain_LoadTipErrorReturned(c, fault) ==
    LET c1 == Do(Do(c, "StopConsensus", 0), "Clear", 0) IN
    IF fault = "Clear" THEN Return(c1, "clear failed")
    ELSE LET c2 == Do([c1 EXCEPT !.loader = <<>>], "LoadTip", 0) IN
         IF fault = "LoadTip" THEN Return(c2, "load tip failed")
         ELSE LET c3 == Do(Do([c2 EXCEPT !.tip = Genesis], "tip.Set", Genesis.hash),
                           "PerformSanityCheck", 0)
              IN  IF fault = "PerformSanityCheck" THEN Panic(c3)
                  ELSE LET c4 == Do(resetState(c3), "ClearWalletDatabase", 0) IN
                       IF fault = "ClearWalletDatabase" THEN Panic(c4)
                       ELSE Return(c4, NoErr)

RebuildChain(c, fault) ==
    LET c1 == Do(Do(c, "StopConsensus", 0), "Clear", 0) IN
    IF fault = "Clear" THEN Return(c1, "clear failed")
    ELSE LET c2 == Do([c1 EXCEPT !.loader = <<>>], "LoadTip", 0) IN
         IF fault = "LoadTip" THEN Panic(c2)
         ELSE LET c3 == Do(Do([c2 EXCEPT !.tip = Genesis], "tip.Set", Genesis.hash),
                           "PerformSanityCheck", 0)
              IN  IF fault = "PerformSanityCheck" THEN Panic(c3)
                  ELSE LET c4 == Do(resetState(c3), "ClearWalletDatabase", 0) IN
                       IF fault = "ClearWalletDatabase" THEN Panic(c4)
                       ELSE Return(c4, NoErr)

(***************************************************************************)
(* The reduction coordinator (reduction/coordinator.go).  The votes a step *)
(* collector hands over are a record: n votes for one hash; nil is         *)
(* NilEvents.  A run of begin() is a record r of the coordinator.          *)
(***************************************************************************)
\* make([]byte, 32): the all-zero hash
EmptyHash == 0

\* a nil *bytes.Buffer
NilBuffer == -1

VoteHashes == {EmptyHash, 1, 2}

NilEvents == [n |-> 0, hash |-> EmptyHash]

\* The sizes of the vote sets a step collector hands over: a quorum or more.
VoteCounts == {Quorum, Quorum + 1, 2 * Quorum}

RedFaults == {"none", "EmbedVoteHash", "MarshalHeader", "MarshalVoteSet"}

\* handler.EmbedVoteHash on events[0]: the hash the event votes for; the nil
\* event of an empty collection leaves the zeroes of the fresh buffer.
encodeEv(events, fault) ==
    IF fault = "EmbedVoteHash" THEN [hash |-> NilBuffer, err |-> "EmbedVoteHash failed"]
    ELSE [hash |-> IF events.n = 0 THEN EmptyHash ELSE events.hash, err |-> NoErr]

isReductionSuccessful_NoLengthCheck(hash1, hash2, events) ==
    LET bothNotNil == hash1 # NilBuffer /\ hash2 # NilBuffer
        identicalResults == hash1 = hash2
    IN  bothNotNil /\ identicalResults

isReductionSuccessful(hash1, hash2, events) ==
    LET bothNotNil == hash1 # NilBuffer /\ hash2 # NilBuffer
        identicalResults == hash1 = hash2
        voteSetCorrectLength == events.n >= Quorum * 2
    IN  bothNotNil /\ identicalResults /\ voteSetCorrectLength

newEventStopWatch == [stopChan |-> 0, collectedVotesChanNil |-> FALSE]

\* The coordinator before begin() is called; step is ctx.state.Step, endpc the
\* position of a call of end().
newCoordinator ==
    [firstStep |-> newEventStopWatch, secondStep |-> newEventStopWatch,
     pc |-> "idle", endpc |-> "idle", step |-> 1, stepAtBegin |-> 1,
     stopAtBegin |-> 0, how1 |-> "none", how2 |-> "none", events |-> NilEvents,
     eventsSecondStep |-> NilEvents,
     hash1 |-> NilBuffer, hash2 |-> NilBuffer,
     reductionVoteChan |-> <<>>, agreementVoteChan |-> <<>>, timeoutChan |-> 0,
     err |-> NoErr, ops |-> <<>>]

RedDo(r, name) == [r EXCEPT !.ops = Append(@, name)]

RedReturn(r, e) == [r EXCEPT !.pc = "returned", !.err = e]

\* begin() from the return of firstStep.fetch() to the call of secondStep.fetch()
beginFirstStep_VoteBeforeStep(r, how, events, fault) ==
    LET e == encodeEv(events, fault)
        r1 == [r EXCEPT !.how1 = how, !.events = events]
    IN  IF e.err # NoErr THEN RedReturn(RedDo([r1 EXCEPT !.step = @ + 1], "Step++"), e.err)
        ELSE IF fault = "MarshalHeader"
             THEN RedReturn(RedDo([r1 EXCEPT !.hash1 = e.hash, !.step = @ + 1], "Step++"),
                            "MarshalHeader failed")
        ELSE RedDo(RedDo([r1 EXCEPT !.hash1 = e.hash, !.pc = "phase2", !.step = @ + 1,
                                    !.reductionVoteChan = Append(@, e.hash)],
                         "reductionVoteChan"), "Step++")

beginFirstStep(r, how, events, fault) ==
    LET r1 == RedDo([r EXCEPT !.how1 = how, !.events = events, !.step = @ + 1], "Step++")
        e == encodeEv(events, fault)
    IN  IF e.err # NoErr THEN RedReturn(r1, e.err)
        ELSE IF fault = "MarshalHeader"
             THEN RedReturn([r1 EXCEPT !.hash1 = e.hash], "MarshalHeader failed")
        ELSE RedDo([r1 EXCEPT !.hash1 = e.hash, !.pc = "phase2",
                              !.reductionVoteChan = Append(@, e.hash)],
                   "reductionVoteChan")

\* begin() from the return of secondStep.fetch() to its own return
beginSecondStep(r, how, eventsSecondStep, fault) ==
    LET r1 == [r EXCEPT !.how2 = how, !.eventsSecondStep = eventsSecondStep]
        e == encodeEv(eventsSecondStep, fault)
    IN  IF e.err # NoErr THEN RedReturn(r1, e.err)
        ELSE LET r2 == [r1 EXCEPT !.hash2 = e.hash] IN
             IF isReductionSuccessful(r2.hash1, r2.hash2, r2.events)
             THEN IF fault \in {"MarshalVoteSet", "MarshalHeader"}
                  THEN RedReturn(r2, "marshalling failed")
                  ELSE RedReturn(RedDo(RedDo([r2 EXCEPT !.agreementVoteChan = Append(@, r2.hash2),
                                                        !.step = @ + 1],
                                             "agreementVoteChan"), "Step++"), NoErr)
             ELSE RedReturn(RedDo([r2 EXCEPT !.step = @ + 1], "Step++"), NoErr)

\* eventStopWatch.fetch: the three cases of its select.
fetchTimeout(r) == RedDo([r EXCEPT !.timeoutChan = @ + 1], "timeout")

fetchVotes(r) == RedDo(r, "collectedVotes")

fetchStop(r, which) ==
    RedDo([r EXCEPT ![which].stopChan = 0, ![which].collectedVotesChanNil = TRUE], "stop")

(***************************************************************************)
(* The signature-set reducer (SigSetReducer).  Collect runs on the         *)
(* goroutine of the event subscriber, Listen on its own; sr.collecting is  *)
(* the event Collect has verified and not yet compared.                    *)
(***************************************************************************)
MaxProcessed == 2   \* events passed to process

\* a nil or empty []byte
NoBytes == 0

BlockHashes == {1, 2}

Keys == {1, 2}

\* The messages published on the SigSetReduction topic: one that does not
\* unmarshal, and the events of member 1 with any signature and any winning
\* block hash.
SigSetEvents ==
    {[ok |-> TRUE, PubKeyBLS |-> 1, VotedHash |-> h, SignedHash |-> [by |-> k, over |-> o],
      winningBlockHash |-> w] :
        h \in BlockHashes, k \in Keys, o \in BlockHashes, w \in BlockHashes \cup {NoBytes}}
    \cup {[ok |-> FALSE, PubKeyBLS |-> 1, VotedHash |-> 1, SignedHash |-> [by |-> 1, over |-> 1],
           winningBlockHash |-> NoBytes]}

NoEvent ==
    [ok |-> FALSE, PubKeyBLS |-> 0, VotedHash |-> 0, SignedHash |-> [by |-> 0, over |-> 0],
     winningBlockHash |-> NoBytes]

\* msg.VerifyBLSSignature: the signature was made by the key over the message.
VerifyBLSSignature(pubKey, message, signature) ==
    signature.by = pubKey /\ signature.over = message

NewSigSetReducer ==
    [winningBlockHash |-> NoBytes, collecting |-> NoEvent, processed |-> 0, voted |-> NoBytes,
     lastCollect |-> [event |-> NoEvent, result |-> "none", winningBlockHash |-> NoBytes,
                      processedBefore |-> 0]]

\* What a call of Collect leaves behind for the properties.
Collected(r, event, result) ==
    [r EXCEPT !.collecting = NoEvent,
              !.lastCollect = [event |-> event, result |-> result,
                               winningBlockHash |-> r.winningBlockHash,
                               processedBefore |-> r.processed]]

\* Collect up to the signature check
CollectVerify_SignatureIgnored(r, event) ==
    IF ~event.ok THEN Collected(r, event, "unmarshal failed")
    ELSE [r EXCEPT !.collecting = event]

CollectVerify(r, event) ==
    IF ~event.ok THEN Collected(r, event, "unmarshal failed")
    ELSE IF ~VerifyBLSSignature(event.PubKeyBLS, event.VotedHash, event.SignedHash)
         THEN Collected(r, event, "sig set reduction: BLS verification failed")
    ELSE [r EXCEPT !.collecting = event]

\* Collect from the comparison of the winning block hashes on
CollectCompare(r) ==
    LET event == r.collecting IN
    IF r.winningBlockHash # event.winningBlockHash
    THEN Collected(r, event, "sig set reduction: vote has wrong winning block hash")
    ELSE [Collected(r, event, "processed") EXCEPT !.processed = @ + 1]

(***************************************************************************)
(* The stake automaton (stakeautomaton.go).  AutomateConsensusTxs is a     *)
(* gRPC method, Listen runs on the goroutine it starts; m.last and m.prev  *)
(* record what Listen did with the last two round updates.                 *)
(***************************************************************************)
MaxRound == 3   \* round updates are published for rounds 1..MaxRound and FarRound
MaxCalls == 2   \* calls of AutomateConsensusTxs

\* How many blocks away from expiration the transactions should be renewed.
renewalOffset == 100

\* config.MaxLockTime
MaxLockTime == 250000

\* wallet.DUSK: atomic units in one DUSK
DUSK == 100000000

\* The round of a round update long after the first ones.
FarRound == 950

Rounds == (1..MaxRound) \cup {FarRound}

\* config.Get().Consensus: DefaultAmount and DefaultLockTime
Amounts == {0, 1}

LockTimes == {0, 50, renewalOffset + 1, renewalOffset + 2, 1000, MaxLockTime + 1}

Settings == [DefaultAmount : Amounts, DefaultLockTime : LockTimes]

DefaultSettings == [DefaultAmount |-> 1, DefaultLockTime |-> 1000]

\* No round update was received.
NoRoundUpdate ==
    [Round |-> 0, stakeEndHeight |-> 0, called |-> FALSE, requested |-> FALSE, err |-> NoErr]

\* New; subscriptions and loops count what AutomateConsensusTxs started,
\* entering the calls that found running false and have not yet set it.
NewStakeAutomaton(settings) ==
    [height |-> 0, stakeEndHeight |-> 1, running |-> FALSE,
     settings |-> settings, calls |-> 0, entering |-> 0, subscriptions |-> 0, loops |-> 0,
     last |-> NoRoundUpdate, prev |-> NoRoundUpdate]

getTxSettings(settings) ==
    LET amount == settings.DefaultAmount
        lockTime == settings.DefaultLockTime
    IN  [amount |-> amount * DUSK,
         lockTime |-> IF lockTime > MaxLockTime THEN MaxLockTime ELSE lockTime]

\* rpc: the error of rpcBus.Call(topics.SendStakeTx, ...)
sendStake_EndHeightNotRecorded(m, rpc) ==
    LET s == getTxSettings(m.settings) IN
    IF s.amount = 0 \/ s.lockTime = 0 THEN [m EXCEPT !.last.err = "invalid settings"]
    ELSE LET m1 == [m EXCEPT !.last.requested = TRUE] IN
         IF rpc # NoErr THEN [m1 EXCEPT !.last.err = rpc] ELSE m1

sendStake_EndHeightBeforeCall(m, rpc) ==
    LET s == getTxSettings(m.settings) IN
    IF s.amount = 0 \/ s.lockTime = 0 THEN [m EXCEPT !.last.err = "invalid settings"]
    ELSE LET m1 == [m EXCEPT !.last.requested = TRUE,
                             !.stakeEndHeight = s.lockTime + m.height]
         IN  IF rpc # NoErr THEN [m1 EXCEPT !.last.err = rpc] ELSE m1

sendStake(m, rpc) ==
    LET s == getTxSettings(m.settings) IN
    IF s.amount = 0 \/ s.lockTime = 0 THEN [m EXCEPT !.last.err = "invalid settings"]
    ELSE LET m1 == [m EXCEPT !.last.requested = TRUE] IN
         IF rpc # NoErr THEN [m1 EXCEPT !.last.err = rpc]
         ELSE [m1 EXCEPT !.stakeEndHeight = s.lockTime + m.height]

\* The body of the loop of Listen for one round update.
Listen_RenewalStrictlyAfter(m, roundUpdate, rpc) ==
    LET m1 == [m EXCEPT !.height = roundUpdate.Round,
                        !.prev = m.last,
                        !.last = [NoRoundUpdate EXCEPT !.Round = roundUpdate.Round,
                                                       !.stakeEndHeight = m.stakeEndHeight]]
    IN  IF m1.height + renewalOffset > m1.stakeEndHeight
        THEN sendStake([m1 EXCEPT !.last.called = TRUE], rpc)
        ELSE m1

Listen(m, roundUpdate, rpc) ==
    LET m1 == [m EXCEPT !.height = roundUpdate.Round,
                        !.prev = m.last,
                        !.last = [NoRoundUpdate EXCEPT !.Round = roundUpdate.Round,
                                                       !.stakeEndHeight = m.stakeEndHeight]]
    IN  IF m1.height + renewalOffset >= m1.stakeEndHeight
        THEN sendStake([m1 EXCEPT !.last.called = TRUE], rpc)
        ELSE m1

(***************************************************************************)
(* The wire format of headers and certificates (message package).  A       *)
(* buffer is a sequence of bytes; a uint64 is held as its eight bytes,     *)
(* least significant first, so that no value leaves the range of the       *)
(* checker's integers.  A writer and a reader are records: the buffer, the *)
(* error of the first call that failed and, for a reader, the value read.  *)
(***************************************************************************)
Fill(n, b) == [i \in 1..n |-> b]

Ramp(n) == [i \in 1..n |-> i]

\* uint64(v): the two's complement of v, least significant byte first
RECURSIVE ToUint64LE(_, _)
ToUint64LE(v, n) == IF n = 0 THEN <<>> ELSE <<v % 256>> \o ToUint64LE(v \div 256, n - 1)

Uint64(v) == ToUint64LE(v, 8)

\* the number a uint64 holds
RECURSIVE FromUint64(_)
FromUint64(u) == IF u = <<>> THEN 0 ELSE Head(u) + 256 * FromUint64(Tail(u))

\* int64(u)
Int64(u) ==
    IF u[8] < 128 THEN FromUint64(u)
    ELSE -(FromUint64([i \in 1..8 |-> 255 - u[i]]) + 1)

NewBuffer(b) == [buf |-> b, err |-> NoErr, val |-> <<>>]

Write(r, bytes, n) ==
    IF r.err # NoErr THEN r
    ELSE IF Len(bytes) # n THEN [r EXCEPT !.err = "invalid length"]
    ELSE [r EXCEPT !.buf = @ \o bytes]

WriteUint8(r, v) == Write(r, <<v>>, 1)

WriteUint64LE(r, u) == Write(r, u, 8)

Write256(r, b) == Write(r, b, 32)

WriteBLS(r, b) == Write(r, b, 33)

Read(r, n) ==
    IF r.err # NoErr THEN r
    ELSE IF Len(r.buf) < n THEN [r EXCEPT !.err = "unexpected EOF"]
    ELSE [r EXCEPT !.val = SubSeq(r.buf, 1, n), !.buf = SubSeq(r.buf, n + 1, Len(r.buf))]

ReadUint8(r) == LET r1 == Read(r, 1) IN IF r1.err # NoErr THEN r1 ELSE [r1 EXCEPT !.val = @[1]]

ReadUint64LE(r) == Read(r, 8)

Read256(r) == Read(r, 32)

ReadBLS(r) == Read(r, 33)

\* block.EmptyCertificate()
EmptyWireCertificate ==
    [StepOneBatchedSig |-> Fill(33, 0), StepTwoBatchedSig |-> Fill(33, 0), Step |-> 0,
     StepOneCommittee |-> Uint64(0), StepTwoCommittee |-> Uint64(0)]

\* block.NewHeader()
NewHeader ==
    [Version |-> 0, Height |-> Uint64(0), Timestamp |-> 0, PrevBlockHash |-> <<>>,
     Seed |-> <<>>, TxRoot |-> <<>>, Certificate |-> EmptyWireCertificate, Hash |-> <<>>]

MarshalCertificate(r, c) ==
    WriteUint64LE(
        WriteUint64LE(
            WriteUint8(
                WriteBLS(WriteBLS(r, c.StepOneBatchedSig), c.StepTwoBatchedSig),
                c.Step),
            c.StepOneCommittee),
        c.StepTwoCommittee)

\* The reader after UnmarshalCertificate; val is the certificate c has become:
\* a field is assigned when its read succeeded, the signatures are fresh
\* 33-byte slices from the moment their read is attempted.
UnmarshalCertificate(r, c) ==
    IF r.err # NoErr THEN [r EXCEPT !.val = c]
    ELSE
    LET r1 == ReadBLS(r)
        c1 == [c EXCEPT !.StepOneBatchedSig = IF r1.err = NoErr THEN r1.val ELSE Fill(33, 0)]
        r2 == ReadBLS(r1)
        c2 == IF r1.err # NoErr THEN c1
              ELSE [c1 EXCEPT !.StepTwoBatchedSig =
                                  IF r2.err = NoErr THEN r2.val ELSE Fill(33, 0)]
        r3 == ReadUint8(r2)
        c3 == IF r3.err # NoErr THEN c2 ELSE [c2 EXCEPT !.Step = r3.val]
        r4 == ReadUint64LE(r3)
        c4 == IF r4.err # NoErr THEN c3 ELSE [c3 EXCEPT !.StepOneCommittee = r4.val]
        r5 == ReadUint64LE(r4)
        c5 == IF r5.err # NoErr THEN c4 ELSE [c4 EXCEPT !.StepTwoCommittee = r5.val]
    IN  [r5 EXCEPT !.val = c5]

MarshalHashable(r, h) ==
    WriteBLS(
        Write256(
            WriteUint64LE(
                WriteUint64LE(WriteUint8(r, h.Version), h.Height),
                Uint64(h.Timestamp)),
            h.PrevBlockHash),
        h.Seed)

MarshalHeader_TxRootBeforeSeed(r, h) ==
    Write256(
        MarshalCertificate(
            WriteBLS(
                Write256(
                    Write256(
                        WriteUint64LE(
                            WriteUint64LE(WriteUint8(r, h.Version), h.Height),
                            Uint64(h.Timestamp)),
                        h.PrevBlockHash),
                    h.TxRoot),
                h.Seed),
            h.Certificate),
        h.Hash)

MarshalHeader(r, h) ==
    Write256(MarshalCertificate(Write256(MarshalHashable(r, h), h.TxRoot), h.Certificate),
             h.Hash)

\* The reader after UnmarshalHeader; val is the header h has become.
UnmarshalHeader(r, h) ==
    LET r1 == ReadUint8(r)
        h1 == IF r1.err # NoErr THEN h ELSE [h EXCEPT !.Version = r1.val]
        r2 == ReadUint64LE(r1)
        h2 == IF r2.err # NoErr THEN h1 ELSE [h1 EXCEPT !.Height = r2.val]
        r3 == ReadUint64LE(r2)
        h3 == IF r3.err # NoErr THEN h2 ELSE [h2 EXCEPT !.Timestamp = Int64(r3.val)]
        r4 == Read256(r3)
        h4 == IF r3.err # NoErr THEN h3
              ELSE [h3 EXCEPT !.PrevBlockHash = IF r4.err = NoErr THEN r4.val ELSE Fill(32, 0)]
        r5 == ReadBLS(r4)
        h5 == IF r4.err # NoErr THEN h4
              ELSE [h4 EXCEPT !.Seed = IF r5.err = NoErr THEN r5.val ELSE Fill(33, 0)]
        r6 == Read256(r5)
        h6 == IF r5.err # NoErr THEN h5
              ELSE [h5 EXCEPT !.TxRoot = IF r6.err = NoErr THEN r6.val ELSE Fill(32, 0)]
        r7 == UnmarshalCertificate(r6, h6.Certificate)
        h7 == [h6 EXCEPT !.Certificate = r7.val]
        r8 == Read256(r7)
        h8 == IF r7.err # NoErr THEN h7
              ELSE [h7 EXCEPT !.Hash = IF r8.err = NoErr THEN r8.val ELSE Fill(32, 0)]
    IN  [r8 EXCEPT !.val = h8]

\* The certificates and headers that are marshalled.
Hashes256 == {Fill(32, 0), Ramp(32)}

SigsBLS == {Fill(33, 0), Ramp(33)}

WireCertificates ==
    [StepOneBatchedSig : SigsBLS, StepTwoBatchedSig : {Fill(33, 255)} , Step : {0, 255},
     StepOneCommittee : {Uint64(0), Uint64(7)}, StepTwoCommittee : {Uint64(300), Fill(8, 255)}]

WireHeaders ==
    [Version : {0, 255}, Height : {Uint64(0), Uint64(70000)}, Timestamp : {-1, 0, 70000},
     PrevBlockHash : Hashes256, Seed : SigsBLS, TxRoot : {Fill(32, 7)},
     Certificate : {EmptyWireCertificate} \cup {c \in WireCertificates : c.Step = 255},
     Hash : Hashes256]

GenesisHeader ==
    [NewHeader EXCEPT !.PrevBlockHash = Fill(32, 0), !.Seed = Fill(33, 0),
                      !.TxRoot = Fill(32, 0), !.Hash = Fill(32, 0)]

\* what: "header" or "certificate"; value: what is marshalled; out: what the
\* unmarshalling made of a fresh header or certificate.
NewWire(what, value) ==
    [what |-> what, value |-> value, pc |-> "new", r |-> NewBuffer(<<>>),
     out |-> IF what = "header" THEN NewHeader ELSE EmptyWireCertificate]

(***************************************************************************)
(* Committee sortition.  A provisioner set is the sequence of its members  *)
(* in the order of their BLS keys; a member is its stake (amount,          *)
(* startHeight, endHeight).  A committee maps the position of each member  *)
(* that claimed a vote to the number of its votes.                         *)
(***************************************************************************)
MaxMembers == 3   \* members of a provisioner set
MaxSize == 3      \* the largest target size
MaxSeed == 3      \* round seeds are 0..MaxSeed

\* The stakes a member can hold: running from height 0, expiring before or
\* after the rounds of the sortition.
StakeAmounts == {1, 2}

Stakes == [amount : StakeAmounts, startHeight : {0}, endHeight : {1, MaxRound + 1}]

ProvisionerSets == UNION {[1..n -> Stakes] : n \in 1..MaxMembers}

\* A stake is active at height h iff startHeight <= h < endHeight.
ActiveStake(m, h) == IF m.startHeight <= h /\ h < m.endHeight THEN m.amount ELSE 0

RECURSIVE TotalActiveStake(_, _)
TotalActiveStake(provisioners, h) ==
    IF provisioners = <<>> THEN 0
    ELSE ActiveStake(Head(provisioners), h) + TotalActiveStake(Tail(provisioners), h)

\* H(round_seed || round || step || i): a stand-in that mixes its four inputs
H(seed, round, step, i) == (seed * 31 + round * 17 + step * 13 + i * 7 + seed * i) % 64

\* The first member, from position k on, whose cumulative active stake exceeds
\* score; cum is the stake accumulated before position k.
RECURSIVE Claimant(_, _, _, _, _)
Claimant(provisioners, h, score, k, cum) ==
    IF k > Len(provisioners) THEN 0
    ELSE LET c == cum + ActiveStake(provisioners[k], h) IN
         IF c > score THEN k ELSE Claimant(provisioners, h, score, k + 1, c)

\* The votes 0..n-1 of the sortition: the member that claims each.
Votes(round, step, n, provisioners, seed) ==
    LET total == TotalActiveStake(provisioners, round) IN
    [i \in 0..(n - 1) |-> Claimant(provisioners, round, H(seed, round, step, i) % total, 1, 0)]

Committee(votes) ==
    [m \in {votes[i] : i \in DOMAIN votes} |-> Cardinality({i \in DOMAIN votes : votes[i] = m})]

CreateCommittee_OneVoteMore(round, step, size, provisioners, seed) ==
    IF TotalActiveStake(provisioners, round) = 0
    THEN [committee |-> <<>>, err |-> "no active stake"]
    ELSE [committee |-> Committee(Votes(round, step, size + 1, provisioners, seed)),
          err |-> NoErr]

CreateCommittee(round, step, size, provisioners, seed) ==
    IF TotalActiveStake(provisioners, round) = 0
    THEN [committee |-> <<>>, err |-> "no active stake"]
    ELSE [committee |-> Committee(Votes(round, step, size, provisioners, seed)),
          err |-> NoErr]

NewSortition(round, step, size, provisioners, seed) ==
    [round |-> round, step |-> step, size |-> size, provisioners |-> provisioners,
     seed |-> seed, pc |-> "new", committee |-> <<>>, err |-> NoErr, verified |-> FALSE]

DefaultSortition ==
    NewSortition(1, 1, 1, <<[amount |-> 1, startHeight |-> 0, endHeight |-> MaxRound + 1]>>, 0)

(***************************************************************************)
(* The score selector.  Idle until the first round update, then Collecting *)
(* until the timer of the round expires, then Selected (a best score was   *)
(* emitted) or Empty.  A score event is its round, its score and whether   *)
(* its proof verifies; score 0 stands for no event.                        *)
(***************************************************************************)
MaxScore == 3   \* scores are 1..MaxScore

ScoreEvents(round) ==
    [round : {round - 1, round}, score : 1..MaxScore, valid : BOOLEAN]

\* selection.Launch: timers are the rounds whose timer is armed, emitted the
\* results published so far, interrupted the rounds a round update cut short.
NewSelector ==
    [state |-> "Idle", round |-> 0, best |-> 0, verified |-> {}, timers |-> {},
     emitted |-> <<>>, interrupted |-> {}]

\* ScoreEventHandler.Priority: the first event has priority over the second
Priority(score1, score2) == score1 >= score2

\* A round update: cancel the timer, reset, and collect for the new round.
selectorRoundUpdate_TimerNotCancelled(s, round) ==
    [s EXCEPT !.state = "Collecting", !.round = round, !.best = 0, !.verified = {},
              !.timers = @ \cup {round},
              !.interrupted = IF s.state = "Collecting" THEN @ \cup {s.round} ELSE @]

selectorRoundUpdate(s, round) ==
    [s EXCEPT !.state = "Collecting", !.round = round, !.best = 0, !.verified = {},
              !.timers = (@ \ {s.round}) \cup {round},
              !.interrupted = IF s.state = "Collecting" THEN @ \cup {s.round} ELSE @]

\* A score event: dropped unless the selector collects for its round and its
\* proof verifies; kept as the best one unless the best so far has priority.
selectorScore_LowestKept(s, ev) ==
    IF s.state # "Collecting" \/ ev.round # s.round \/ ~ev.valid THEN s
    ELSE [s EXCEPT !.verified = @ \cup {ev.score},
                   !.best = IF s.best # 0 /\ Priority(ev.score, s.best) THEN @ ELSE ev.score]

selectorScore(s, ev) ==
    IF s.state # "Collecting" \/ ev.round # s.round \/ ~ev.valid THEN s
    ELSE [s EXCEPT !.verified = @ \cup {ev.score},
                   !.best = IF Priority(s.best, ev.score) THEN @ ELSE ev.score]

\* The timer armed for round t expires: the best score is emitted, or the step
\* ends with the empty vote.
selectorTimeout(s, t) ==
    LET s1 == [s EXCEPT !.timers = @ \ {t}] IN
    IF s.best # 0
    THEN [s1 EXCEPT !.state = "Selected",
                    !.emitted = Append(@, [round |-> t, score |-> s.best])]
    ELSE [s1 EXCEPT !.state = "Empty"]

(***************************************************************************)
(* The candidate generator (blockgenerator.go).  A Generator holds the     *)
(* round update it was initialized with; Collect turns one score event     *)
(* into a score message and a candidate block, both sent through the       *)
(* signer.  Every call that can return an error is a fault point.          *)
(***************************************************************************)
MaxTxs == 2

MempoolTxs == {[TxType |-> "standard", proof |-> 0, score |-> 0, id |-> i] :
                  i \in 1..2}

\* the answers of rpcbus.GetMempoolTxs: the transactions in mempool order
MempoolAnswers == UNION {[1..n -> MempoolTxs] : n \in 0..MaxTxs}

GeneratorFaults ==
    {"none", "generation.Unmarshal", "constructCoinbaseTx", "GetMempoolTxs",
     "ReadVarInt", "UnmarshalTx", "SetRoot", "SetHash", "MarshalScore",
     "SendScore", "MarshalBlock", "SendCandidate"}

NoBlock == [Header |-> [Version |-> 0, Height |-> 0, PrevBlockHash |-> 0,
                        Seed |-> 0, Certificate |-> EmptyWireCertificate,
                        TxRoot |-> <<>>, Hash |-> <<>>],
            Txs |-> <<>>]

\* NewComponent: no round yet; sent, mempool and fault are what the latest
\* call on the component sent, was answered by the mempool, and met
NewComponent(rpcBus) ==
    [rpcBus |-> rpcBus, initialized |-> FALSE,
     roundInfo |-> [Round |-> 0, Hash |-> 0],
     sent |-> <<>>, blk |-> NoBlock, mempool |-> <<>>, fault |-> "none",
     err |-> NoErr]

\* Initialize: bg.roundInfo = ru
GeneratorInitializeOp(g, ru) ==
    [g EXCEPT !.initialized = TRUE, !.roundInfo = ru, !.sent = <<>>,
              !.blk = NoBlock, !.mempool = <<>>, !.fault = "none",
              !.err = NoErr]

\* constructCoinbaseTx: the reward transaction for the proof and the score
constructCoinbaseTx(proof, score) ==
    [TxType |-> "coinbase", proof |-> proof, score |-> score, id |-> 0]

\* ConstructBlockTxs: [err, txs]
ConstructBlockTxs_CoinbaseLast(g, proof, score, mempool, fault) ==
    IF fault = "constructCoinbaseTx" THEN [err |-> fault, txs |-> <<>>]
    ELSE IF ~g.rpcBus
         THEN [err |-> NoErr, txs |-> <<constructCoinbaseTx(proof, score)>>]
    ELSE IF fault \in {"GetMempoolTxs", "ReadVarInt", "UnmarshalTx"}
         THEN [err |-> fault, txs |-> <<>>]
    ELSE [err |-> NoErr,
          txs |-> mempool \o <<constructCoinbaseTx(proof, score)>>]

ConstructBlockTxs(g, proof, score, mempool, fault) ==
    IF fault = "constructCoinbaseTx" THEN [err |-> fault, txs |-> <<>>]
    ELSE IF ~g.rpcBus
         THEN [err |-> NoErr, txs |-> <<constructCoinbaseTx(proof, score)>>]
    ELSE IF fault \in {"GetMempoolTxs", "ReadVarInt", "UnmarshalTx"}
         THEN [err |-> fault, txs |-> <<>>]
    ELSE [err |-> NoErr,
          txs |-> <<constructCoinbaseTx(proof, score)>> \o mempool]

\* GenerateBlock: [err, blk]
GenerateBlock(g, round, seed, proof, score, prevBlockHash, mempool, fault) ==
    LET t == ConstructBlockTxs(g, proof, score, mempool, fault)
        h == [Version |-> 0, Height |-> round,
              PrevBlockHash |-> prevBlockHash, Seed |-> seed,
              Certificate |-> EmptyWireCertificate,
              TxRoot |-> <<>>, Hash |-> <<>>]
        rooted == [h EXCEPT !.TxRoot = <<"root">> \o t.txs]
        hashed == [rooted EXCEPT !.Hash =
                      <<"hash", round, prevBlockHash, seed>> \o rooted.TxRoot]
    IN  IF t.err # NoErr THEN [err |-> t.err, blk |-> NoBlock]
        ELSE IF fault \in {"SetRoot", "SetHash"}
             THEN [err |-> fault, blk |-> NoBlock]
        ELSE [err |-> NoErr, blk |-> [Header |-> hashed, Txs |-> t.txs]]

\* Generate: the block for the round the generator was initialized with
Generate(g, sev, mempool, fault) ==
    GenerateBlock(g, g.roundInfo.Round, sev.Seed, sev.Proof, sev.Score,
                  g.roundInfo.Hash, mempool, fault)

\* Collect: the score first, then the candidate
Collect(g0, sev, mempool, fault) ==
    LET g == [g0 EXCEPT !.sent = <<>>, !.blk = NoBlock,
                        !.mempool = mempool, !.fault = fault]
        b == Generate(g, sev, mempool, fault)
        scoreMsg == [topic |-> "Score", hash |-> b.blk.Header.Hash,
                     PrevHash |-> g.roundInfo.Hash, Seed |-> sev.Seed,
                     VoteHash |-> b.blk.Header.Hash, blk |-> NoBlock]
        candidateMsg == [topic |-> "Candidate", hash |-> b.blk.Header.Hash,
                         PrevHash |-> g.roundInfo.Hash, Seed |-> sev.Seed,
                         VoteHash |-> b.blk.Header.Hash, blk |-> b.blk]
    IN  IF fault = "generation.Unmarshal" THEN [g EXCEPT !.err = fault]
        ELSE IF b.err # NoErr THEN [g EXCEPT !.err = b.err]
        ELSE IF fault \in {"MarshalScore", "SendScore"}
             THEN [g EXCEPT !.err = fault]
        ELSE IF fault = "MarshalBlock"
             THEN [g EXCEPT !.err = fault, !.sent = <<scoreMsg>>]
        ELSE IF fault = "SendCandidate"
             THEN [g EXCEPT !.err = fault, !.sent = <<scoreMsg>>]
        ELSE [g EXCEPT !.err = NoErr, !.sent = <<scoreMsg, candidateMsg>>]

(***************************************************************************)
(* wire.StepEventCollector: a map from a step to the list of the events    *)
(* stored for it.  A step without an entry reads as the empty list.  An    *)
(* event carries its sender's key and a signature; Equal, which every      *)
(* event type implements, compares the senders.                            *)
(***************************************************************************)
MaxSenders == 2

CollectorSteps == 1..2

CollectorEvents == [Sender : 1..MaxSenders, sig : 1..2]

NoCollectorEvent == [Sender |-> 0, sig |-> 0]

\* Event.Equal
Equal(a, b) == a.Sender = b.Sender

\* events is the map; ret, op, event, step and pre are the latest call's
\* return value, name, arguments and the map it started from
NewStepEventCollector ==
    [events |-> [s \in CollectorSteps |-> <<>>], ret |-> 0, op |-> "none",
     event |-> NoCollectorEvent, step |-> 0,
     pre |-> [s \in CollectorSteps |-> <<>>]]

\* Clear: every key is deleted
Clear(c) ==
    [c EXCEPT !.events = [s \in CollectorSteps |-> <<>>], !.ret = 0,
              !.op = "Clear", !.event = NoCollectorEvent, !.step = 0,
              !.pre = c.events]

\* Contains: some event stored at the step is Equal to the event
Contains(events, event, step) ==
    \E i \in DOMAIN events[step] : Equal(event, events[step][i])

\* Store: append unless Contains, return the length of the step's list
Store_CountBeforeAppend(c, event, step) ==
    LET eventList == c.events[step]
        called == [c EXCEPT !.op = "Store", !.event = event, !.step = step,
                            !.pre = c.events]
    IN  IF Contains(c.events, event, step)
        THEN [called EXCEPT !.ret = Len(eventList)]
        ELSE [called EXCEPT !.events[step] = Append(eventList, event),
                            !.ret = Len(eventList)]

Store(c, event, step) ==
    LET eventList == c.events[step]
        called == [c EXCEPT !.op = "Store", !.event = event, !.step = step,
                            !.pre = c.events]
    IN  IF Contains(c.events, event, step)
        THEN [called EXCEPT !.ret = Len(eventList)]
        ELSE [called EXCEPT !.events[step] = Append(eventList, event),
                            !.ret = Len(Append(eventList, event))]

(***************************************************************************)
(* wire.EventSubscriber and the part of the event bus it uses.  The bus    *)
(* keeps, per subscription, the channel to deliver to; a publication puts  *)
(* the message on the channel of every subscription of the topic, in       *)
(* publication order, and waits while a channel is full.                   *)
(***************************************************************************)
MaxMessages == 3

msgChanCapacity == 100

quitChanCapacity == 1

\* NewEventSubscriber: both channels subscribed, nothing received yet;
\* published and collected are the messages published on the topic and
\* the messages handed to Collect, in order
NewEventSubscriber ==
    [pc |-> "Accept", msgChan |-> <<>>, quitChan |-> <<>>,
     subscribed |-> {"topic", "QuitTopic"}, published |-> <<>>,
     collected |-> <<>>]

\* EventBus.Publish on the subscriber's topic
PublishTopic(n, payload) ==
    LET m == [id |-> Len(n.published) + 1, payload |-> payload]
    IN  [n EXCEPT !.published = Append(@, m),
                  !.msgChan = IF "topic" \in n.subscribed
                              THEN Append(@, m) ELSE @]

\* EventBus.Publish on the quit topic
PublishQuit(n) ==
    [n EXCEPT !.quitChan = IF "QuitTopic" \in n.subscribed
                           THEN Append(@, "quit") ELSE @]

\* Accept, case <-n.quitChan: unsubscribe both and return
AcceptQuitChan(n) ==
    [n EXCEPT !.quitChan = Tail(@), !.subscribed = {}, !.pc = "returned"]

\* Accept, case eventMsg := <-n.msgChan: hand it to Collect
AcceptMsgChan_NewestFirst(n) ==
    [n EXCEPT !.msgChan = SubSeq(@, 1, Len(@) - 1),
              !.collected = Append(@, n.msgChan[Len(n.msgChan)])]

AcceptMsgChan(n) ==
    [n EXCEPT !.msgChan = Tail(@), !.collected = Append(@, Head(n.msgChan))]

(***************************************************************************)
(* The legacy chain (blockverification.go): the chain keeps the previous   *)
(* block and stores accepted blocks in its database.  The checks of the    *)
(* transactions (checkMultiCoinbases, verifyTX) are outside this file:     *)
(* their outcome is a field of the block.                                  *)
(***************************************************************************)
MaxStored == 1

LegacyGenesis ==
    [Version |-> 0, PrevBlock |-> 0, Height |-> 0, Timestamp |-> 1,
     TxRoot |-> "root", Hash |-> 1, txs |-> "ok"]

\* db is the set of stored blocks; op, blk, headerErr and err are the latest
\* call, its block, what checkBlockHeader said of it and the call's error;
\* stored and returned say whether the call stored or returned the block
NewLegacyChain ==
    [PrevBlock |-> LegacyGenesis, db |-> {LegacyGenesis}, op |-> "none",
     blk |-> LegacyGenesis, headerErr |-> NoErr, err |-> NoErr,
     stored |-> FALSE, returned |-> FALSE]

\* checkBlockHeader: the first check that fails
legacyCheckBlockHeader(c, blk) ==
    IF blk.Version > 0 THEN "unsupported block version"
    ELSE IF blk.PrevBlock # c.PrevBlock.Hash
         THEN "Previous block hash does not equal the previous hash in the current block"
    ELSE IF blk.Height # c.PrevBlock.Height + 1
         THEN "current block height is not one plus the previous block height"
    ELSE IF blk.Timestamp <= c.PrevBlock.Timestamp
         THEN "current timestamp is less than the previous timestamp"
    ELSE IF blk.TxRoot = "SetRoot fails"
         THEN "could not calculate the merkle tree root for this header"
    ELSE IF blk.TxRoot # "root" THEN "merkle root mismatch"
    ELSE NoErr

\* verifyBlock: a failed header check returns nil
verifyBlock(c, blk) ==
    IF legacyCheckBlockHeader(c, blk) # NoErr THEN NoErr
    ELSE IF blk.txs = "two coinbases" THEN "multiple coinbases"
    ELSE IF blk.txs = "not a transaction"
         THEN "tx does not implement the transaction interface"
    ELSE IF blk.txs = "invalid" THEN "verifyTX"
    ELSE NoErr

\* AcceptBlock of the legacy chain
LegacyAcceptBlock(c0, blk, fault) ==
    LET c == [c0 EXCEPT !.op = "AcceptBlock", !.blk = blk, !.returned = FALSE,
                        !.stored = FALSE,
                        !.headerErr = legacyCheckBlockHeader(c0, blk)]
    IN  IF fault = "View" THEN [c EXCEPT !.err = fault]
        ELSE IF \E b \in c.db : b.Hash = blk.Hash
             THEN [c EXCEPT !.err = "block already exists"]
        ELSE IF verifyBlock(c0, blk) # NoErr
             THEN [c EXCEPT !.err = verifyBlock(c0, blk)]
        ELSE IF fault = "StoreBlock" THEN [c EXCEPT !.err = fault]
        ELSE [c EXCEPT !.db = @ \cup {blk}, !.PrevBlock = blk, !.stored = TRUE,
                       !.err = IF fault = "propagateBlock" THEN fault
                               ELSE NoErr]

\* ForgeCandidateBlock at the time now, with the mempool's transactions
ForgeCandidateBlock(c0, now, txs, hash, fault) ==
    LET b == [Version |-> 0, PrevBlock |-> c0.PrevBlock.Hash,
              Height |-> c0.PrevBlock.Height + 1, Timestamp |-> now,
              TxRoot |-> "root", Hash |-> hash, txs |-> txs]
        c == [c0 EXCEPT !.op = "ForgeCandidateBlock", !.blk = b,
                        !.returned = FALSE, !.stored = FALSE,
                        !.headerErr = legacyCheckBlockHeader(c0, b)]
    IN  IF fault \in {"SetRoot", "SetHash"} THEN [c EXCEPT !.err = fault]
        ELSE IF verifyBlock(c0, b) # NoErr
             THEN [c EXCEPT !.err = verifyBlock(c0, b)]
        ELSE [c EXCEPT !.err = NoErr, !.returned = TRUE]

(***************************************************************************)
(* The RoundUpdate publications as a subscriber of the topic sees them:    *)
(* the round of the latest one and the round of the one before it.         *)
(***************************************************************************)
NoRoundUpdates == [previous |-> 0, latest |-> 0]

RECURSIVE Observe(_, _)
Observe(seen, ops) ==
    IF ops = <<>> THEN seen
    ELSE Observe(IF Head(ops).op = "RoundUpdate"
                 THEN [previous |-> seen.latest, latest |-> Head(ops).arg.Round]
                 ELSE seen,
                 Tail(ops))

(***************************************************************************)
(* The state machine.                                                      *)
(***************************************************************************)
\* The Chain as the record the handlers work on.
Self ==
    [tip |-> tip, p |-> p, counter |-> counter, lastCertificate |-> lastCertificate,
     lastCommittee |-> lastCommittee, loader |-> loader, panicked |-> FALSE,
     err |-> NoErr, ops |-> <<>>, called |-> FALSE, began |-> FALSE,
     prevBlock |-> tip, spawned |-> <<>>]

Pre ==
    [tip |-> tip, p |-> p, counter |-> counter, lastCertificate |-> lastCertificate,
     lastCommittee |-> lastCommittee, loader |-> loader]

\* The collaborators' outcomes recorded for a step that consults none.
NoEnv == [fault |-> "none", provisioners |-> 0]

\* What a step leaves in `last`: the handler, its input, the state it started
\* from and what it did.
History(name, blk, env, r) ==
    [handler |-> name, blk |-> blk, env |-> env, pre |-> Pre, err |-> r.err,
     ops |-> r.ops, called |-> r.called, began |-> r.began,
     prevBlock |-> r.prevBlock, spawned |-> r.spawned]

\* What the consensus loop makes of a publication of the chain.  A round update
\* starts a round; StopConsensus asks the loop to finalize the components of the
\* round, which takes until ConsensusStopped; a round update delivered before
\* that finds the components of the stopped round still alive ("overlap").
DeliverOne(state, op) ==
    IF state = "none" THEN state
    ELSE IF op.op = "StopConsensus"
         THEN (IF state = "round" THEN "stopping" ELSE state)
    ELSE IF op.op = "RoundUpdate"
         THEN (IF state \in {"stopping", "overlap"} THEN "overlap" ELSE "round")
    ELSE state

RECURSIVE Deliver(_, _)
Deliver(state, ops) ==
    IF ops = <<>> THEN state ELSE Deliver(DeliverOne(state, Head(ops)), Tail(ops))

\* The step that runs handler `name` on input block blk, with the collaborators
\* behaving as env, and ends in res.
Step(name, blk, env, res) ==
    LET r == res IN
    /\ Len(goroutines) + Len(r.spawned) <= MaxPending
    /\ tip' = r.tip
    /\ p' = r.p
    /\ counter' = r.counter
    /\ lastCertificate' = r.lastCertificate
    /\ lastCommittee' = r.lastCommittee
    /\ loader' = r.loader
    /\ panicked' = r.panicked
    /\ goroutines' = goroutines \o r.spawned
    /\ last' = History(name, blk, env, r)
    /\ consensus' = Deliver(consensus, r.ops)
    /\ UNCHANGED <<race, cancelled>>
    /\ UNCHANGED components

\* New: the Chain built on the tip the loader holds.
New(prevBlock) ==
    [tip |-> prevBlock, p |-> 0, counter |-> 0,
     lastCertificate |-> IF prevBlock.height = 0 THEN EmptyCertificate ELSE NilCertificate,
     lastCommittee |-> 0, loader |-> <<>>, panicked |-> FALSE,
     err |-> NoErr, ops |-> <<>>, called |-> FALSE, began |-> FALSE,
     prevBlock |-> prevBlock, spawned |-> <<>>]

\* Neither AcceptBlock nor RebuildChain is running.
RaceIdle ==
    [pc |-> "idle", blk |-> Genesis, env |-> NoEnv, prevBlock |-> Genesis,
     rb |-> "idle", interleaved |-> FALSE]

\* The chain created from a loader whose tip is the genesis block.
ChainInit ==
    LET c == New(Genesis) IN
    /\ tip = c.tip
    /\ p = c.p
    /\ counter = c.counter
    /\ lastCertificate = c.lastCertificate
    /\ lastCommittee = c.lastCommittee
    /\ loader = c.loader
    /\ goroutines = <<>>
    /\ panicked = FALSE
    /\ last = [handler |-> "New", blk |-> Genesis, env |-> NoEnv,
               pre |-> [tip |-> c.tip, p |-> c.p, counter |-> c.counter,
                        lastCertificate |-> c.lastCertificate,
                        lastCommittee |-> c.lastCommittee, loader |-> c.loader],
               err |-> c.err, ops |-> c.ops, called |-> c.called, began |-> c.began,
               prevBlock |-> c.prevBlock, spawned |-> c.spawned]

\* No consensus component was created yet.
ComponentsInit ==
    /\ red = newCoordinator
    /\ sr = NewSigSetReducer
    /\ sa = NewStakeAutomaton(DefaultSettings)
    /\ wire = NewWire("header", GenesisHeader)
    /\ sortition = DefaultSortition
    /\ sel = NewSelector
    /\ bg = NewComponent(TRUE)
    /\ sec = NewStepEventCollector
    /\ es = NewEventSubscriber
    /\ nsr = "none"
    /\ legacy = NewLegacyChain
    /\ published = NoRoundUpdates

Init ==
    /\ ChainInit
    /\ race = RaceIdle
    /\ consensus = "none"
    /\ cancelled = FALSE
    /\ ComponentsInit

\* case m := <-c.blockChan
ListenBlock ==
    /\ ~panicked
    /\ \E cs \in Cases(tip) :
          Step("onAcceptBlock", cs.blk, cs.env, onAcceptBlock(Self, cs.blk, cs.env))

\* case certificateMsg := <-c.certificateChan
ListenCertificate ==
    /\ ~panicked
    /\ \E cs \in CandidateCases(tip), ok \in BOOLEAN :
          LET b == cs.blk
              cMsg == [hash |-> b.hash, cert |-> b.cert, committee |-> b.height]
              resp == [ok |-> ok, block |-> [b EXCEPT !.cert = EmptyCertificate]]
          IN  /\ ok \/ Healthy(cs.env)
              /\ Step("handleCertificateMessage", b, cs.env,
                      handleCertificateMessage(Self, cMsg, resp, cs.env))

\* case m := <-c.initializationChan
ListenInitialization ==
    /\ ~panicked
    /\ Step("onInitialization", tip, NoEnv, onInitialization(Self))

\* A goroutine started by a handler publishes its round update.
GoSendRoundUpdate ==
    /\ ~panicked
    /\ \E i \in 1..Len(goroutines) :
          LET r == sendRoundUpdate(Self, goroutines[i]) IN
          /\ goroutines' = SubSeq(goroutines, 1, i - 1) \o SubSeq(goroutines, i + 1, Len(goroutines))
          /\ last' = History("sendRoundUpdate", tip, NoEnv, r)
          /\ consensus' = Deliver(consensus, r.ops)
    /\ UNCHANGED <<tip, p, counter, lastCertificate, lastCommittee, loader, panicked>>
    /\ UNCHANGED <<race, cancelled>>
    /\ UNCHANGED components

\* The synchronizer, seeing a peer's block beyond tip.height + 1, starts a sync.
StartSyncing ==
    /\ ~panicked
    /\ ~IsSyncing(counter)
    /\ \E gap \in 1..MaxGap :
          Step("StartSyncing", tip, NoEnv, [Self EXCEPT !.counter = gap])

GrpcRebuildChain ==
    /\ ~panicked
    /\ \E fault \in RebuildFaults :
          Step("RebuildChain", tip, [fault |-> fault, provisioners |-> 0],
               RebuildChain(Self, fault))

Next ==
    \/ ListenBlock
    \/ ListenCertificate
    \/ ListenInitialization
    \/ GoSendRoundUpdate
    \/ StartSyncing
    \/ GrpcRebuildChain

Spec == Init /\ [][Next]_vars

(***************************************************************************)
(* AcceptBlock and RebuildChain statement by statement.  AcceptBlock runs  *)
(* on the goroutine of Listen, RebuildChain on the goroutine the gRPC      *)
(* server gives the call; the Chain holds no lock, so the statements of    *)
(* the two interleave.  race.pc is the position of AcceptBlock, race.rb    *)
(* the position of RebuildChain.                                           *)
(***************************************************************************)
\* AcceptBlock has read the tip and has not yet made its last write of the tip
\* and the provisioners.
InFlight == race.pc \in {"provisioners", "certificate", "execute"}

raceFixed == <<goroutines, panicked, last, consensus, cancelled, red, sr, sa, wire, sortition, sel, bg, sec, es, nsr, legacy, published>>

\* prevBlock := c.tip.Get(), then the verifier's sanity check
AcceptBlockSanity ==
    /\ race.pc = "idle"
    /\ \E blk \in Blocks(tip) :
          LET env == [fault |-> "none", provisioners |-> blk.cert.signedBy] IN
          race' = [race EXCEPT !.blk = blk, !.env = env, !.prevBlock = tip,
                               !.pc = IF SanityCheckBlock(tip, blk) = NoErr
                                      THEN "provisioners" ELSE "idle"]
    /\ UNCHANGED <<tip, p, counter, lastCertificate, lastCommittee, loader>>
    /\ UNCHANGED raceFixed

\* GetProvisioners, then c.p = &provisioners
AcceptBlockProvisioners ==
    /\ race.pc = "provisioners"
    /\ p' = race.env.provisioners
    /\ race' = [race EXCEPT !.pc = "certificate"]
    /\ UNCHANGED <<tip, counter, lastCertificate, lastCommittee, loader>>
    /\ UNCHANGED raceFixed

\* CheckBlockCertificate(*c.p, blk)
AcceptBlockCertificate ==
    /\ race.pc = "certificate"
    /\ race' = [race EXCEPT !.pc = IF CheckBlockCertificate(p, race.blk) = NoErr
                                   THEN "execute" ELSE "idle"]
    /\ UNCHANGED <<tip, p, counter, lastCertificate, lastCommittee, loader>>
    /\ UNCHANGED raceFixed

\* ExecuteStateTransition, then c.p = &provisioners and c.tip.Set(&blk)
AcceptBlockExecute ==
    /\ race.pc = "execute"
    /\ p' = ProvisionersAfter(race.env, race.blk)
    /\ tip' = race.blk
    /\ race' = [race EXCEPT !.pc = "store"]
    /\ UNCHANGED <<counter, lastCertificate, lastCommittee, loader>>
    /\ UNCHANGED raceFixed

\* c.loader.Append(&blk)
AcceptBlockStore ==
    /\ race.pc = "store"
    /\ loader' = Append(loader, race.blk)
    /\ race' = [race EXCEPT !.pc = "notify"]
    /\ UNCHANGED <<tip, p, counter, lastCertificate, lastCommittee>>
    /\ UNCHANGED raceFixed

\* advertise, publish AcceptedBlock, decrement the counter, return nil
AcceptBlockNotify ==
    /\ race.pc = "notify"
    /\ counter' = Decrement(counter)
    /\ race' = [race EXCEPT !.pc = "idle"]
    /\ UNCHANGED <<tip, p, lastCertificate, lastCommittee, loader>>
    /\ UNCHANGED raceFixed

\* publish StopConsensus, then c.loader.Clear()
RebuildChainClear ==
    /\ race.rb = "idle"
    /\ loader' = <<>>
    /\ race' = [race EXCEPT !.rb = "loadTip"]
    /\ UNCHANGED <<tip, p, counter, lastCertificate, lastCommittee>>
    /\ UNCHANGED raceFixed

\* tip := c.loader.LoadTip(), c.tip.Set(tip), PerformSanityCheck
RebuildChainLoadTip ==
    /\ race.rb = "loadTip"
    /\ tip' = Genesis
    /\ race' = [race EXCEPT !.rb = "resetState", !.interleaved = @ \/ InFlight]
    /\ UNCHANGED <<p, counter, lastCertificate, lastCommittee, loader>>
    /\ UNCHANGED raceFixed

\* c.resetState()
RebuildChainResetState ==
    /\ race.rb = "resetState"
    /\ p' = 0
    /\ lastCertificate' = EmptyCertificate
    /\ race' = [race EXCEPT !.rb = "clearWallet", !.interleaved = @ \/ InFlight]
    /\ UNCHANGED <<tip, counter, lastCommittee, loader>>
    /\ UNCHANGED raceFixed

\* the ClearWalletDatabase call, then the response
RebuildChainReturn ==
    /\ race.rb = "clearWallet"
    /\ race' = [race EXCEPT !.rb = "idle"]
    /\ UNCHANGED <<tip, p, counter, lastCertificate, lastCommittee, loader>>
    /\ UNCHANGED raceFixed

NextRace ==
    \/ AcceptBlockSanity
    \/ AcceptBlockProvisioners
    \/ AcceptBlockCertificate
    \/ AcceptBlockExecute
    \/ AcceptBlockStore
    \/ AcceptBlockNotify
    \/ RebuildChainClear
    \/ RebuildChainLoadTip
    \/ RebuildChainResetState
    \/ RebuildChainReturn

SpecRace == Init /\ [][NextRace]_vars

(***************************************************************************)
(* The chain together with the consensus loop its publications reach,      *)
(* from the moment the first round is running: blocks and certificates     *)
(* arrive, syncs start, round-update goroutines run.                       *)
(***************************************************************************)
InitConsensus ==
    /\ ChainInit
    /\ race = RaceIdle
    /\ consensus = "round"
    /\ cancelled = FALSE
    /\ ComponentsInit

\* The consensus loop has finalized the components of the stopped round.
ConsensusStopped ==
    /\ consensus = "stopping"
    /\ consensus' = "idle"
    /\ UNCHANGED <<tip, p, counter, lastCertificate, lastCommittee, loader,
                   goroutines, panicked, last, race, cancelled>>
    /\ UNCHANGED components

NextConsensus ==
    \/ ListenBlock
    \/ ListenCertificate
    \/ GoSendRoundUpdate
    \/ StartSyncing
    \/ ConsensusStopped

SpecConsensus == InitConsensus /\ [][NextConsensus]_vars

(***************************************************************************)
(* The reduction coordinator: one goroutine runs begin(), again and again, *)
(* another calls end().                                                    *)
(***************************************************************************)
MaxStep == 5   \* begin() is not called again at this step or beyond

\* c.begin() is called and waits in firstStep.fetch()
Begin ==
    /\ red.pc \in {"idle", "returned"}
    /\ red.step < MaxStep
    /\ red' = [red EXCEPT !.pc = "phase1", !.stepAtBegin = red.step,
                          !.stopAtBegin = red.firstStep.stopChan,
                          !.how1 = "none", !.how2 = "none", !.events = NilEvents,
                          !.eventsSecondStep = NilEvents,
                          !.hash1 = NilBuffer, !.hash2 = NilBuffer,
                          !.reductionVoteChan = <<>>, !.agreementVoteChan = <<>>,
                          !.timeoutChan = 0, !.err = NoErr, !.ops = <<>>]
    /\ UNCHANGED <<chain, sr, sa, wire, sortition, sel, bg, sec, es, nsr, legacy, published>>

\* case <-timer.C of firstStep.fetch()
FirstStepTimeout ==
    /\ red.pc = "phase1"
    /\ \E fault \in RedFaults :
          red' = beginFirstStep(fetchTimeout(red), "timeout", NilEvents, fault)
    /\ UNCHANGED <<chain, sr, sa, wire, sortition, sel, bg, sec, es, nsr, legacy, published>>

\* case collectedVotes := <-esw.collectedVotesChan of firstStep.fetch()
FirstStepVotes ==
    /\ red.pc = "phase1"
    /\ ~red.firstStep.collectedVotesChanNil
    /\ \E n \in VoteCounts, h \in VoteHashes, fault \in RedFaults :
          red' = beginFirstStep(fetchVotes(red), "votes", [n |-> n, hash |-> h], fault)
    /\ UNCHANGED <<chain, sr, sa, wire, sortition, sel, bg, sec, es, nsr, legacy, published>>

\* case <-esw.stopChan of firstStep.fetch()
FirstStepStop ==
    /\ red.pc = "phase1"
    /\ red.firstStep.stopChan = 1
    /\ \E fault \in RedFaults :
          red' = beginFirstStep(fetchStop(red, "firstStep"), "stop", NilEvents, fault)
    /\ UNCHANGED <<chain, sr, sa, wire, sortition, sel, bg, sec, es, nsr, legacy, published>>

\* case <-timer.C of secondStep.fetch()
SecondStepTimeout ==
    /\ red.pc = "phase2"
    /\ \E fault \in RedFaults :
          red' = beginSecondStep(fetchTimeout(red), "timeout", NilEvents, fault)
    /\ UNCHANGED <<chain, sr, sa, wire, sortition, sel, bg, sec, es, nsr, legacy, published>>

\* case collectedVotes := <-esw.collectedVotesChan of secondStep.fetch()
SecondStepVotes ==
    /\ red.pc = "phase2"
    /\ ~red.secondStep.collectedVotesChanNil
    /\ \E n \in VoteCounts, h \in VoteHashes, fault \in RedFaults :
          red' = beginSecondStep(fetchVotes(red), "votes", [n |-> n, hash |-> h], fault)
    /\ UNCHANGED <<chain, sr, sa, wire, sortition, sel, bg, sec, es, nsr, legacy, published>>

\* case <-esw.stopChan of secondStep.fetch()
SecondStepStop ==
    /\ red.pc = "phase2"
    /\ red.secondStep.stopChan = 1
    /\ \E fault \in RedFaults :
          red' = beginSecondStep(fetchStop(red, "secondStep"), "stop", NilEvents, fault)
    /\ UNCHANGED <<chain, sr, sa, wire, sortition, sel, bg, sec, es, nsr, legacy, published>>

\* c.end() is called
End ==
    /\ red.endpc = "idle"
    /\ red' = [red EXCEPT !.endpc = "firstStep"]
    /\ UNCHANGED <<chain, sr, sa, wire, sortition, sel, bg, sec, es, nsr, legacy, published>>

\* c.firstStep.stop(): the send on the stop channel, of capacity 1
EndFirstStepStop ==
    /\ red.endpc = "firstStep"
    /\ red.firstStep.stopChan = 0
    /\ red' = [red EXCEPT !.firstStep.stopChan = 1, !.endpc = "secondStep"]
    /\ UNCHANGED <<chain, sr, sa, wire, sortition, sel, bg, sec, es, nsr, legacy, published>>

\* c.secondStep.stop(), then end() returns
EndSecondStepStop ==
    /\ red.endpc = "secondStep"
    /\ red.secondStep.stopChan = 0
    /\ red' = [red EXCEPT !.secondStep.stopChan = 1, !.endpc = "idle"]
    /\ UNCHANGED <<chain, sr, sa, wire, sortition, sel, bg, sec, es, nsr, legacy, published>>

NextReduction ==
    \/ Begin
    \/ FirstStepTimeout
    \/ FirstStepVotes
    \/ FirstStepStop
    \/ SecondStepTimeout
    \/ SecondStepVotes
    \/ SecondStepStop
    \/ End
    \/ EndFirstStepStop
    \/ EndSecondStepStop

SpecReduction == Init /\ [][NextReduction]_vars

\* The timers of the two fetches fire: a wait of begin() ends.
SpecReductionLive ==
    /\ SpecReduction
    /\ WF_vars(FirstStepTimeout)
    /\ WF_vars(SecondStepTimeout)

(***************************************************************************)
(* The signature-set reducer: Listen, and Collect called by the event      *)
(* subscriber.                                                             *)
(***************************************************************************)
\* Collect: unmarshal the message and verify the signature
SigSetCollect ==
    /\ sr.collecting = NoEvent
    /\ sr.processed < MaxProcessed
    /\ \E event \in SigSetEvents : sr' = CollectVerify(sr, event)
    /\ UNCHANGED <<chain, red, sa, wire, sortition, sel, bg, sec, es, nsr, legacy, published>>

\* Collect: compare the winning block hashes and process the event
SigSetCollectCompare ==
    /\ sr.collecting # NoEvent
    /\ sr' = CollectCompare(sr)
    /\ UNCHANGED <<chain, red, sa, wire, sortition, sel, bg, sec, es, nsr, legacy, published>>

\* case round := <-sr.roundChannel
SigSetRoundUpdate ==
    /\ sr' = [sr EXCEPT !.winningBlockHash = NoBytes]
    /\ UNCHANGED <<chain, red, sa, wire, sortition, sel, bg, sec, es, nsr, legacy, published>>

\* case blockHash := <-sr.phaseUpdateChannel
SigSetPhaseUpdate ==
    /\ \E blockHash \in BlockHashes : sr' = [sr EXCEPT !.winningBlockHash = blockHash]
    /\ UNCHANGED <<chain, red, sa, wire, sortition, sel, bg, sec, es, nsr, legacy, published>>

\* case setHash := <-sr.selectionChannel
SigSetSelection ==
    /\ sr.winningBlockHash # NoBytes
    /\ \E setHash \in BlockHashes : sr' = [sr EXCEPT !.voted = setHash]
    /\ UNCHANGED <<chain, red, sa, wire, sortition, sel, bg, sec, es, nsr, legacy, published>>

NextSigSet ==
    \/ SigSetCollect
    \/ SigSetCollectCompare
    \/ SigSetRoundUpdate
    \/ SigSetPhaseUpdate
    \/ SigSetSelection

SpecSigSet == Init /\ [][NextSigSet]_vars

(***************************************************************************)
(* The Listen loop with the root context.                                  *)
(***************************************************************************)
\* The owner of the root context cancels it.
CancelContext ==
    /\ ~cancelled
    /\ cancelled' = TRUE
    /\ last' = [last EXCEPT !.handler = "cancel", !.ops = <<>>, !.spawned = <<>>,
                            !.err = NoErr, !.called = FALSE, !.pre = Pre]
    /\ UNCHANGED <<tip, p, counter, lastCertificate, lastCommittee, loader,
                   goroutines, panicked, race, consensus>>
    /\ UNCHANGED components

\* case <-c.ctx.Done(): nothing is done and the loop goes on
ListenDone ==
    /\ ~panicked
    /\ cancelled
    /\ last' = [last EXCEPT !.handler = "ctx.Done", !.ops = <<>>, !.spawned = <<>>,
                            !.err = NoErr, !.called = FALSE, !.pre = Pre]
    /\ UNCHANGED <<tip, p, counter, lastCertificate, lastCommittee, loader,
                   goroutines, panicked, race, consensus, cancelled>>
    /\ UNCHANGED components

NextListen ==
    \/ ListenBlock
    \/ ListenCertificate
    \/ ListenInitialization
    \/ GoSendRoundUpdate
    \/ StartSyncing
    \/ GrpcRebuildChain
    \/ CancelContext
    \/ ListenDone

SpecListen == Init /\ [][NextListen]_vars

(***************************************************************************)
(* The stake automaton on its own: the node's configuration is any of      *)
(* Settings, AutomateConsensusTxs is called over gRPC, and round updates   *)
(* reach the Listen loop.                                                  *)
(***************************************************************************)
InitStake ==
    /\ ChainInit
    /\ race = RaceIdle
    /\ consensus = "none"
    /\ cancelled = FALSE
    /\ red = newCoordinator
    /\ sr = NewSigSetReducer
    /\ sa \in {NewStakeAutomaton(s) : s \in Settings}
    /\ wire = NewWire("header", GenesisHeader)
    /\ sortition = DefaultSortition
    /\ sel = NewSelector
    /\ bg = NewComponent(TRUE)
    /\ sec = NewStepEventCollector
    /\ es = NewEventSubscriber
    /\ nsr = "none"
    /\ legacy = NewLegacyChain
    /\ published = NoRoundUpdates

\* AutomateConsensusTxs: a call evaluates !m.running
AutomateConsensusTxsCheck ==
    /\ sa.calls < MaxCalls
    /\ sa' = [sa EXCEPT !.calls = @ + 1,
                        !.entering = IF sa.running THEN @ ELSE @ + 1]
    /\ UNCHANGED <<chain, red, sr, wire, sortition, sel, bg, sec, es, nsr, legacy, published>>

\* AutomateConsensusTxs: the body of the if: InitRoundUpdate, running = true and
\* go m.Listen()
AutomateConsensusTxsStart ==
    /\ sa.entering > 0
    /\ sa' = [sa EXCEPT !.entering = @ - 1, !.subscriptions = @ + 1,
                        !.running = TRUE, !.loops = @ + 1]
    /\ UNCHANGED <<chain, red, sr, wire, sortition, sel, bg, sec, es, nsr, legacy, published>>

\* for roundUpdate := range m.roundChan
StakeRoundUpdate ==
    /\ sa.loops > 0
    /\ \E round \in Rounds, rpc \in {NoErr, "timeout"} :
          sa' = Listen(sa, [Round |-> round], rpc)
    /\ UNCHANGED <<chain, red, sr, wire, sortition, sel, bg, sec, es, nsr, legacy, published>>

NextStake ==
    \/ AutomateConsensusTxsCheck
    \/ AutomateConsensusTxsStart
    \/ StakeRoundUpdate

SpecStake == InitStake /\ [][NextStake]_vars

(***************************************************************************)
(* Marshalling on its own: any of the headers and certificates is written  *)
(* to an empty buffer, and the buffer is read back.                        *)
(***************************************************************************)
InitWire ==
    /\ ChainInit
    /\ race = RaceIdle
    /\ consensus = "none"
    /\ cancelled = FALSE
    /\ red = newCoordinator
    /\ sr = NewSigSetReducer
    /\ sa = NewStakeAutomaton(DefaultSettings)
    /\ wire \in {NewWire("header", h) : h \in WireHeaders}
                \cup {NewWire("certificate", c) : c \in WireCertificates}
    /\ sortition = DefaultSortition
    /\ sel = NewSelector
    /\ bg = NewComponent(TRUE)
    /\ sec = NewStepEventCollector
    /\ es = NewEventSubscriber
    /\ nsr = "none"
    /\ legacy = NewLegacyChain
    /\ published = NoRoundUpdates

WireMarshalHeader ==
    /\ wire.pc = "new" /\ wire.what = "header"
    /\ wire' = [wire EXCEPT !.pc = "marshalled", !.r = MarshalHeader(wire.r, wire.value)]
    /\ UNCHANGED <<chain, red, sr, sa, sortition, sel, bg, sec, es, nsr, legacy, published>>

WireUnmarshalHeader ==
    /\ wire.pc = "marshalled" /\ wire.what = "header"
    /\ LET r == UnmarshalHeader(wire.r, wire.out) IN
       wire' = [wire EXCEPT !.pc = "unmarshalled", !.r = [r EXCEPT !.val = <<>>],
                            !.out = r.val]
    /\ UNCHANGED <<chain, red, sr, sa, sortition, sel, bg, sec, es, nsr, legacy, published>>

WireMarshalCertificate ==
    /\ wire.pc = "new" /\ wire.what = "certificate"
    /\ wire' = [wire EXCEPT !.pc = "marshalled", !.r = MarshalCertificate(wire.r, wire.value)]
    /\ UNCHANGED <<chain, red, sr, sa, sortition, sel, bg, sec, es, nsr, legacy, published>>

WireUnmarshalCertificate ==
    /\ wire.pc = "marshalled" /\ wire.what = "certificate"
    /\ LET r == UnmarshalCertificate(wire.r, wire.out) IN
       wire' = [wire EXCEPT !.pc = "unmarshalled", !.r = [r EXCEPT !.val = <<>>],
                            !.out = r.val]
    /\ UNCHANGED <<chain, red, sr, sa, sortition, sel, bg, sec, es, nsr, legacy, published>>

NextWire ==
    \/ WireMarshalHeader
    \/ WireUnmarshalHeader
    \/ WireMarshalCertificate
    \/ WireUnmarshalCertificate

SpecWire == InitWire /\ [][NextWire]_vars

(***************************************************************************)
(* Sortition on its own: a committee is created for any provisioner set,   *)
(* round, step, target size and seed, and a verifier recomputes it.        *)
(***************************************************************************)
InitSortition ==
    /\ ChainInit
    /\ race = RaceIdle
    /\ consensus = "none"
    /\ cancelled = FALSE
    /\ red = newCoordinator
    /\ sr = NewSigSetReducer
    /\ sa = NewStakeAutomaton(DefaultSettings)
    /\ wire = NewWire("header", GenesisHeader)
    /\ sortition \in {NewSortition(round, step, size, ps, seed) :
                  round \in 1..2, step \in 1..2, size \in 1..MaxSize,
                  ps \in ProvisionerSets, seed \in 0..MaxSeed}
    /\ sel = NewSelector
    /\ bg = NewComponent(TRUE)
    /\ sec = NewStepEventCollector
    /\ es = NewEventSubscriber
    /\ nsr = "none"
    /\ legacy = NewLegacyChain
    /\ published = NoRoundUpdates

SortitionCreate ==
    /\ sortition.pc = "new"
    /\ LET r == CreateCommittee(sortition.round, sortition.step, sortition.size, sortition.provisioners, sortition.seed) IN
       sortition' = [sortition EXCEPT !.pc = "created", !.committee = r.committee, !.err = r.err]
    /\ UNCHANGED <<chain, red, sr, sa, wire, sel, bg, sec, es, nsr, legacy, published>>

\* Verification: the committee is recomputed from the public inputs.
SortitionVerify ==
    /\ sortition.pc = "created"
    /\ LET r == CreateCommittee(sortition.round, sortition.step, sortition.size, sortition.provisioners, sortition.seed) IN
       sortition' = [sortition EXCEPT !.pc = "verified",
                        !.verified = (r.err = sortition.err /\ r.committee = sortition.committee)]
    /\ UNCHANGED <<chain, red, sr, sa, wire, sel, bg, sec, es, nsr, legacy, published>>

NextSortition ==
    \/ SortitionCreate
    \/ SortitionVerify

SpecSortition == InitSortition /\ [][NextSortition]_vars

(***************************************************************************)
(* The selector on its own: round updates for increasing rounds, score     *)
(* events of the current and of the previous round, timers that expire.    *)
(***************************************************************************)
SelectorRoundUpdate ==
    /\ \E round \in (sel.round + 1)..MaxRound : sel' = selectorRoundUpdate(sel, round)
    /\ UNCHANGED <<chain, red, sr, sa, wire, sortition, bg, sec, es, nsr, legacy, published>>

SelectorScore ==
    /\ sel.round > 0
    /\ \E ev \in ScoreEvents(sel.round) : sel' = selectorScore(sel, ev)
    /\ UNCHANGED <<chain, red, sr, sa, wire, sortition, bg, sec, es, nsr, legacy, published>>

SelectorTimeout ==
    /\ \E t \in sel.timers : sel' = selectorTimeout(sel, t)
    /\ UNCHANGED <<chain, red, sr, sa, wire, sortition, bg, sec, es, nsr, legacy, published>>

NextSelector ==
    \/ SelectorRoundUpdate
    \/ SelectorScore
    \/ SelectorTimeout

SpecSelector == Init /\ [][NextSelector]_vars

(***************************************************************************)
(* The candidate generator on its own: it is built with or without a       *)
(* request bus, initialized with a round update, and collects score        *)
(* events.                                                                 *)
(***************************************************************************)
ScoreEventsIn == [Seed : 1..2, Proof : {1}, Score : {1}]

RoundUpdates == [Round : 1..MaxRound, Hash : BlockHashes]

InitGenerator ==
    /\ ChainInit
    /\ race = RaceIdle
    /\ consensus = "none"
    /\ cancelled = FALSE
    /\ red = newCoordinator
    /\ sr = NewSigSetReducer
    /\ sa = NewStakeAutomaton(DefaultSettings)
    /\ wire = NewWire("header", GenesisHeader)
    /\ sortition = DefaultSortition
    /\ sel = NewSelector
    /\ bg \in {NewComponent(rpcBus) : rpcBus \in BOOLEAN}
    /\ sec = NewStepEventCollector
    /\ es = NewEventSubscriber
    /\ nsr = "none"
    /\ legacy = NewLegacyChain
    /\ published = NoRoundUpdates

\* the consensus loop initializes the component for a round
GeneratorInitialize ==
    /\ \E ru \in RoundUpdates : bg' = GeneratorInitializeOp(bg, ru)
    /\ UNCHANGED <<chain, red, sr, sa, wire, sortition, sel, sec, es, nsr, legacy, published>>

\* a score event reaches the listener Initialize returned
GeneratorCollect ==
    /\ bg.initialized
    /\ \E sev \in ScoreEventsIn, mempool \in MempoolAnswers,
          fault \in GeneratorFaults :
          bg' = Collect(bg, sev, mempool, fault)
    /\ UNCHANGED <<chain, red, sr, sa, wire, sortition, sel, sec, es, nsr, legacy, published>>

NextGenerator ==
    \/ GeneratorInitialize
    \/ GeneratorCollect

SpecGenerator == InitGenerator /\ [][NextGenerator]_vars

(***************************************************************************)
(* The step event collector on its own: any event is stored at any step,   *)
(* and the collector is cleared, in any order.                             *)
(***************************************************************************)
InitCollector ==
    /\ ChainInit
    /\ race = RaceIdle
    /\ consensus = "none"
    /\ cancelled = FALSE
    /\ red = newCoordinator
    /\ sr = NewSigSetReducer
    /\ sa = NewStakeAutomaton(DefaultSettings)
    /\ wire = NewWire("header", GenesisHeader)
    /\ sortition = DefaultSortition
    /\ sel = NewSelector
    /\ bg = NewComponent(TRUE)
    /\ sec = NewStepEventCollector
    /\ es = NewEventSubscriber
    /\ nsr = "none"
    /\ legacy = NewLegacyChain
    /\ published = NoRoundUpdates

CollectorStore ==
    /\ \E event \in CollectorEvents, step \in CollectorSteps :
          sec' = Store(sec, event, step)
    /\ UNCHANGED <<chain, red, sr, sa, wire, sortition, sel, bg, es, nsr, legacy, published>>

CollectorClear ==
    /\ sec' = Clear(sec)
    /\ UNCHANGED <<chain, red, sr, sa, wire, sortition, sel, bg, es, nsr, legacy, published>>

NextCollector ==
    \/ CollectorStore
    \/ CollectorClear

SpecCollector == InitCollector /\ [][NextCollector]_vars

(***************************************************************************)
(* An event subscriber on its own: it was created and its Accept loop      *)
(* runs; messages and quit messages are published at any time.             *)
(***************************************************************************)
Payloads == {1, 2}

InitSubscriber ==
    /\ ChainInit
    /\ race = RaceIdle
    /\ consensus = "none"
    /\ cancelled = FALSE
    /\ red = newCoordinator
    /\ sr = NewSigSetReducer
    /\ sa = NewStakeAutomaton(DefaultSettings)
    /\ wire = NewWire("header", GenesisHeader)
    /\ sortition = DefaultSortition
    /\ sel = NewSelector
    /\ bg = NewComponent(TRUE)
    /\ sec = NewStepEventCollector
    /\ es = NewEventSubscriber
    /\ nsr = "none"
    /\ legacy = NewLegacyChain
    /\ published = NoRoundUpdates

\* some component publishes on the topic
SubscriberPublish ==
    /\ Len(es.published) < MaxMessages
    /\ Len(es.msgChan) < msgChanCapacity
    /\ \E payload \in Payloads : es' = PublishTopic(es, payload)
    /\ UNCHANGED <<chain, red, sr, sa, wire, sortition, sel, bg, sec, nsr, legacy, published>>

\* some component publishes on the quit topic
SubscriberPublishQuit ==
    /\ Len(es.quitChan) < quitChanCapacity
    /\ es' = PublishQuit(es)
    /\ UNCHANGED <<chain, red, sr, sa, wire, sortition, sel, bg, sec, nsr, legacy, published>>

\* the select of Accept takes the quit case
AcceptQuit ==
    /\ es.pc = "Accept"
    /\ es.quitChan # <<>>
    /\ es' = AcceptQuitChan(es)
    /\ UNCHANGED <<chain, red, sr, sa, wire, sortition, sel, bg, sec, nsr, legacy, published>>

\* the select of Accept takes the message case
AcceptMsg ==
    /\ es.pc = "Accept"
    /\ es.msgChan # <<>>
    /\ es' = AcceptMsgChan(es)
    /\ UNCHANGED <<chain, red, sr, sa, wire, sortition, sel, bg, sec, nsr, legacy, published>>

NextSubscriber ==
    \/ SubscriberPublish
    \/ SubscriberPublishQuit
    \/ AcceptQuit
    \/ AcceptMsg

SpecSubscriber == InitSubscriber /\ [][NextSubscriber]_vars

(***************************************************************************)
(* A call of NewSigSetReducer: the constructor creates the subscriber of   *)
(* the selection results and calls its Accept, then creates the reducer    *)
(* and the subscriber of the reduction topic and calls its Accept, then    *)
(* returns.  es is the subscriber whose Accept the constructor is in.      *)
(***************************************************************************)
InitNewSigSetReducer ==
    /\ ChainInit
    /\ race = RaceIdle
    /\ consensus = "none"
    /\ cancelled = FALSE
    /\ red = newCoordinator
    /\ sr = NewSigSetReducer
    /\ sa = NewStakeAutomaton(DefaultSettings)
    /\ wire = NewWire("header", GenesisHeader)
    /\ sortition = DefaultSortition
    /\ sel = NewSelector
    /\ bg = NewComponent(TRUE)
    /\ sec = NewStepEventCollector
    /\ es = NewEventSubscriber
    /\ nsr = "SelectionResultTopic"
    /\ legacy = NewLegacyChain
    /\ published = NoRoundUpdates

\* the first Accept returned: on to the second subscriber and its Accept
NewSigSetReducerSecondAccept ==
    /\ nsr = "SelectionResultTopic"
    /\ es.pc = "returned"
    /\ nsr' = "SigSetReduction"
    /\ es' = NewEventSubscriber
    /\ UNCHANGED <<chain, red, sr, sa, wire, sortition, sel, bg, sec, legacy, published>>

\* the second Accept returned: return sigSetReducer
NewSigSetReducerReturn ==
    /\ nsr = "SigSetReduction"
    /\ es.pc = "returned"
    /\ nsr' = "returned"
    /\ UNCHANGED <<chain, red, sr, sa, wire, sortition, sel, bg, sec, es, legacy, published>>

NextNewSigSetReducer ==
    \/ SubscriberPublish
    \/ SubscriberPublishQuit
    \/ AcceptQuit
    \/ AcceptMsg
    \/ NewSigSetReducerSecondAccept
    \/ NewSigSetReducerReturn

\* the constructor's own steps are taken whenever they can be; nothing
\* obliges a component to publish
SpecNewSigSetReducer ==
    /\ InitNewSigSetReducer
    /\ [][NextNewSigSetReducer]_vars
    /\ WF_vars(AcceptQuit)
    /\ WF_vars(AcceptMsg)
    /\ WF_vars(NewSigSetReducerSecondAccept)
    /\ WF_vars(NewSigSetReducerReturn)

(***************************************************************************)
(* The legacy chain on its own: blocks arrive that extend the previous     *)
(* block or differ from such a block in one field, and candidates are      *)
(* forged.                                                                 *)
(***************************************************************************)
Deviations ==
    {"none", "version", "previous hash", "height", "timestamp",
     "merkle root", "SetRoot"}

LegacyTxs == {"ok", "two coinbases", "not a transaction", "invalid"}

LegacyHashes(c) == 1..(Cardinality(c.db) + 1)

\* the block after c.PrevBlock, wrong in the field named by d
LegacyBlock(c, d, txs, hash) ==
    [Version |-> IF d = "version" THEN 1 ELSE 0,
     PrevBlock |-> IF d = "previous hash" THEN 0 ELSE c.PrevBlock.Hash,
     Height |-> c.PrevBlock.Height + (IF d = "height" THEN 2 ELSE 1),
     Timestamp |-> c.PrevBlock.Timestamp + (IF d = "timestamp" THEN 0 ELSE 1),
     TxRoot |-> IF d = "merkle root" THEN "other root"
                ELSE IF d = "SetRoot" THEN "SetRoot fails" ELSE "root",
     Hash |-> hash, txs |-> txs]

InitLegacy ==
    /\ ChainInit
    /\ race = RaceIdle
    /\ consensus = "none"
    /\ cancelled = FALSE
    /\ red = newCoordinator
    /\ sr = NewSigSetReducer
    /\ sa = NewStakeAutomaton(DefaultSettings)
    /\ wire = NewWire("header", GenesisHeader)
    /\ sortition = DefaultSortition
    /\ sel = NewSelector
    /\ bg = NewComponent(TRUE)
    /\ sec = NewStepEventCollector
    /\ es = NewEventSubscriber
    /\ nsr = "none"
    /\ legacy = NewLegacyChain
    /\ published = NoRoundUpdates

LegacyAccept ==
    /\ Cardinality(legacy.db) <= MaxStored
    /\ \E d \in Deviations, txs \in LegacyTxs, hash \in LegacyHashes(legacy),
          fault \in {"none", "View", "StoreBlock", "propagateBlock"} :
          legacy' = LegacyAcceptBlock(legacy, LegacyBlock(legacy, d, txs, hash),
                                      fault)
    /\ UNCHANGED <<chain, red, sr, sa, wire, sortition, sel, bg, sec, es, nsr, published>>

LegacyForge ==
    /\ \E now \in 1..(legacy.PrevBlock.Timestamp + 1), txs \in LegacyTxs,
          fault \in {"none", "SetRoot", "SetHash"} :
          legacy' = ForgeCandidateBlock(legacy, now, txs,
                                        Cardinality(legacy.db) + 1, fault)
    /\ UNCHANGED <<chain, red, sr, sa, wire, sortition, sel, bg, sec, es, nsr, published>>

NextLegacy ==
    \/ LegacyAccept
    \/ LegacyForge

SpecLegacy == InitLegacy /\ [][NextLegacy]_vars

(***************************************************************************)
(* The chain with the order of its RoundUpdate publications observed:      *)
(* blocks and certificate messages arrive, syncs start, and up to          *)
(* MaxSpawned round-update goroutines wait to be scheduled.                *)
(***************************************************************************)
MaxSpawned == 2

ObservedStep(name, blk, env, res) ==
    LET r == res IN
    /\ Len(goroutines) + Len(r.spawned) <= MaxSpawned
    /\ tip' = r.tip
    /\ p' = r.p
    /\ counter' = r.counter
    /\ lastCertificate' = r.lastCertificate
    /\ lastCommittee' = r.lastCommittee
    /\ loader' = r.loader
    /\ panicked' = r.panicked
    /\ goroutines' = goroutines \o r.spawned
    /\ last' = History(name, blk, env, r)
    /\ consensus' = Deliver(consensus, r.ops)
    /\ published' = Observe(published, r.ops)
    /\ UNCHANGED <<race, cancelled>>
    /\ UNCHANGED <<red, sr, sa, wire, sortition, sel, bg, sec, es, nsr, legacy>>

ObservedBlock ==
    /\ ~panicked
    /\ \E cs \in Cases(tip) :
          ObservedStep("onAcceptBlock", cs.blk, cs.env,
                       onAcceptBlock(Self, cs.blk, cs.env))

ObservedCertificate ==
    /\ ~panicked
    /\ \E cs \in CandidateCases(tip), ok \in BOOLEAN :
          LET b == cs.blk
              cMsg == [hash |-> b.hash, cert |-> b.cert, committee |-> b.height]
              resp == [ok |-> ok, block |-> [b EXCEPT !.cert = EmptyCertificate]]
          IN  /\ ok \/ Healthy(cs.env)
              /\ ObservedStep("handleCertificateMessage", b, cs.env,
                              handleCertificateMessage(Self, cMsg, resp, cs.env))

ObservedStartSyncing ==
    /\ ~panicked
    /\ ~IsSyncing(counter)
    /\ \E gap \in 1..MaxGap :
          ObservedStep("StartSyncing", tip, NoEnv, [Self EXCEPT !.counter = gap])

\* the scheduler runs any of the waiting goroutines
ObservedGoSendRoundUpdate ==
    /\ ~panicked
    /\ \E i \in 1..Len(goroutines) :
          LET r == sendRoundUpdate(Self, goroutines[i]) IN
          /\ goroutines' = SubSeq(goroutines, 1, i - 1)
                              \o SubSeq(goroutines, i + 1, Len(goroutines))
          /\ last' = History("sendRoundUpdate", tip, NoEnv, r)
          /\ consensus' = Deliver(consensus, r.ops)
          /\ published' = Observe(published, r.ops)
    /\ UNCHANGED <<tip, p, counter, lastCertificate, lastCommittee, loader, panicked>>
    /\ UNCHANGED <<race, cancelled>>
    /\ UNCHANGED <<red, sr, sa, wire, sortition, sel, bg, sec, es, nsr, legacy>>

NextRoundUpdates ==
    \/ ObservedBlock
    \/ ObservedCertificate
    \/ ObservedStartSyncing
    \/ ObservedGoSendRoundUpdate

SpecRoundUpdates == Init /\ [][NextRoundUpdates]_vars

(***************************************************************************)
(* Properties.  They read `last`: the handler of the most recent step, its *)
(* input (blk, env), the state it started from (pre) and what it did.      *)
(***************************************************************************)
Count(ops, name) == Cardinality({i \in DOMAIN ops : ops[i].op = name})

Has(ops, name) == Count(ops, name) > 0

\* The operations of the step from AcceptBlock's first one on.
AcceptOps ==
    LET first == {i \in DOMAIN last.ops : last.ops[i].op = "SanityCheckBlock"} IN
    IF first = {} THEN <<>>
    ELSE SubSeq(last.ops, CHOOSE i \in first : \A j \in first : i <= j, Len(last.ops))

\* AcceptBlock published nothing on the event bus and started no round update.
AcceptPublishedNothing ==
    \A i \in DOMAIN AcceptOps :
        AcceptOps[i].op \notin Publications \cup {"go sendRoundUpdate"}

\* AcceptBlock was called in the last step and returned nil.
Accepted == last.called /\ last.err = NoErr

\* The block of the last step passes the sanity check against the tip of then.
PassesSanity == SanityCheckBlock(last.pre.tip, last.blk) = NoErr

\* ... and its certificate verifies under the refreshed provisioners.
PassesCertificate ==
    /\ last.env.fault # "GetProvisioners"
    /\ CheckBlockCertificate(last.env.provisioners, last.blk) = NoErr

\* C1: every block AcceptBlock accepts, from the Block topic or from a
\* certificate message, before or after rebuilds, is the next block on the tip
\* of then: height + 1, prev_hash = the tip's hash, a strictly later timestamp.
C1_AcceptedBlockExtendsTip ==
    Accepted =>
        /\ tip = last.blk
        /\ last.blk.height = last.pre.tip.height + 1
        /\ last.blk.prevBlock = last.pre.tip.hash
        /\ last.blk.timestamp > last.pre.tip.timestamp

\* A block was accepted from the Block topic on top of the genesis block a
\* rebuild went back to: the committee of round 2 had been recorded before.
C1_Witness ==
    /\ Accepted
    /\ last.handler = "onAcceptBlock"
    /\ tip.height = 1
    /\ lastCommittee = 2

\* C2: a run of AcceptBlock on a block that passes the sanity and certificate
\* checks, with executor and loader succeeding, returns nil, makes the block the
\* tip, appends it to the loader, publishes exactly one Inv with its hash and
\* exactly one AcceptedBlock, and decrements the counter exactly once.
C2_HappyPath ==
    (last.called /\ PassesSanity /\ PassesCertificate /\ last.env.fault = "none") =>
        /\ last.err = NoErr
        /\ tip = last.blk
        /\ loader = Append(last.pre.loader, last.blk)
        /\ Count(last.ops, "Append") = 1
        /\ Count(last.ops, "Inv") = 1
        /\ \A i \in DOMAIN last.ops : last.ops[i].op = "Inv" => last.ops[i].arg = last.blk.hash
        /\ Count(last.ops, "AcceptedBlock") = 1
        /\ Count(last.ops, "Decrement") = 1
        /\ counter = Decrement(last.pre.counter)

C2_Witness ==
    /\ last.called /\ PassesSanity /\ PassesCertificate /\ last.env.fault = "none"
    /\ last.handler = "onAcceptBlock"
    /\ last.pre.counter = 2
    /\ counter = 1

\* The block of the last step is at height tip + 1 and not later than the tip.
TimestampRegression ==
    /\ last.handler \in {"onAcceptBlock", "handleCertificateMessage"}
    /\ last.blk.height = last.pre.tip.height + 1
    /\ last.blk.timestamp <= last.pre.tip.timestamp

\* C3 as stated: a block at height tip + 1 whose timestamp is not strictly
\* greater than the tip's, reaching AcceptBlock, is rejected with a validation
\* error, the tip is unchanged and the chain publishes nothing at all.
C3_AsStated ==
    (TimestampRegression /\ last.called) =>
        /\ last.err \in ValidationErrors
        /\ tip = last.pre.tip
        /\ \A i \in DOMAIN last.ops : last.ops[i].op \notin Publications

\* C3 amended: when such a block reaches AcceptBlock it is rejected with a
\* validation error, the tip is unchanged and AcceptBlock publishes nothing;
\* on the Block topic it reaches AcceptBlock exactly when the counter reports
\* syncing, after beginAccepting published one StopConsensus, and is dropped
\* without any publication otherwise.
C3_TimestampRegressionRejected ==
    TimestampRegression =>
        /\ tip = last.pre.tip
        /\ last.called =>
              /\ last.err \in ValidationErrors
              /\ AcceptPublishedNothing
        /\ last.handler = "onAcceptBlock" =>
              /\ last.called = IsSyncing(last.pre.counter)
              /\ Count(last.ops, "StopConsensus") = (IF IsSyncing(last.pre.counter) THEN 1 ELSE 0)
              /\ ~last.called => (last.err = NoErr /\ last.ops = <<>>)

C3_Witness ==
    /\ TimestampRegression
    /\ last.handler = "onAcceptBlock"
    /\ last.called
    /\ last.err = ErrTimestamp
    /\ last.pre.tip.height = 1

\* The certificate check of the last step was made and failed.
CertificateFails ==
    /\ last.called
    /\ PassesSanity
    /\ last.env.fault # "GetProvisioners"
    /\ CheckBlockCertificate(last.env.provisioners, last.blk) # NoErr

\* C4: when the certificate check fails, AcceptBlock returns an error, the tip
\* is unchanged, the state transition is not invoked, nothing is appended to the
\* loader, AcceptBlock publishes nothing and the counter is not decremented.
C4_CertificateFailure ==
    CertificateFails =>
        /\ last.err = ErrCertificate
        /\ tip = last.pre.tip
        /\ ~Has(last.ops, "ExecuteStateTransition")
        /\ ~Has(last.ops, "Append")
        /\ loader = last.pre.loader
        /\ AcceptPublishedNothing
        /\ ~Has(last.ops, "Decrement")
        /\ counter = last.pre.counter

\* A bitmap one member short of the quorum was rejected while syncing.
C4_Witness ==
    /\ CertificateFails
    /\ Popcount(last.blk.cert.bm1) = Quorum - 1
    /\ last.handler = "onAcceptBlock"
    /\ last.pre.tip.height = 1

\* Loader.Append was called in the last step and failed.
AppendFails ==
    last.called /\ PassesSanity /\ PassesCertificate /\ last.env.fault = "Append"

\* C5 as stated: when Loader.Append fails, AcceptBlock returns an error, the
\* tip stays the parent block, no Inv and no AcceptedBlock is published and the
\* counter is not decremented.
C5_AsStated ==
    AppendFails =>
        /\ last.err # NoErr
        /\ tip = last.pre.tip
        /\ ~Has(last.ops, "Inv")
        /\ ~Has(last.ops, "AcceptedBlock")
        /\ ~Has(last.ops, "Decrement")
        /\ counter = last.pre.counter

\* ExecuteStateTransition was called in the last step and failed.
ExecutorFails ==
    last.called /\ PassesSanity /\ PassesCertificate
        /\ last.env.fault = "ExecuteStateTransition"

\* C6: when ExecuteStateTransition fails, AcceptBlock returns an error, the tip
\* is unchanged, the block is not appended, AcceptBlock publishes nothing and
\* the counter is not decremented.
C6_ExecutorFailure ==
    ExecutorFails =>
        /\ last.err = ErrExecutor
        /\ tip = last.pre.tip
        /\ ~Has(last.ops, "Append")
        /\ loader = last.pre.loader
        /\ AcceptPublishedNothing
        /\ ~Has(last.ops, "Decrement")
        /\ counter = last.pre.counter

C6_Witness ==
    /\ ExecutorFails
    /\ last.handler = "handleCertificateMessage"
    /\ last.pre.tip.height = 1

\* The effects of AcceptBlock the order is stated for, in that order.
AcceptOrder ==
    <<"SanityCheckBlock", "GetProvisioners", "CheckBlockCertificate",
      "ExecuteStateTransition", "Append", "Inv", "AcceptedBlock", "Decrement">>

\* The effects of AcceptBlock in the last step, those of AcceptOrder only.
AcceptEffects ==
    LET inOrder(op) == \E k \in DOMAIN AcceptOrder : AcceptOrder[k] = op IN
    SelectSeq(AcceptOps, LAMBDA o : inOrder(o.op))

\* C7: the effects of one AcceptBlock happen in the order sanity check,
\* provisioner refresh, certificate verification, state transition, Append,
\* Inv, AcceptedBlock, counter decrement, each at most once and none skipped;
\* an accepting run makes all of them.
C7_AcceptOrder ==
    last.called =>
        /\ Len(AcceptEffects) <= Len(AcceptOrder)
        /\ \A i \in DOMAIN AcceptEffects : AcceptEffects[i].op = AcceptOrder[i]
        /\ last.err = NoErr => Len(AcceptEffects) = Len(AcceptOrder)
        /\ Has(last.ops, "Inv") => loader = Append(last.pre.loader, last.blk)

C7_Witness ==
    /\ Accepted
    /\ Len(AcceptEffects) = Len(AcceptOrder)
    /\ last.handler = "handleCertificateMessage"

\* C8 as stated: a block with height > tip.height + 1 arriving on the Block
\* topic is never accepted and the chain publishes StopConsensus in response.
C8_AsStated ==
    (last.handler = "onAcceptBlock" /\ last.blk.height > last.pre.tip.height + 1) =>
        /\ tip = last.pre.tip
        /\ Has(last.ops, "StopConsensus")

\* C9: an accept from the Block topic happens while syncing and decrements the
\* counter by one; while the counter stays above zero no round update is
\* started or published; the accept that brings it to zero starts exactly one,
\* for round = new tip height + 1, after AcceptBlock returned, and the goroutine
\* started publishes that round update once.
C9_SyncRoundUpdate ==
    /\ last.handler = "sendRoundUpdate" =>
          (Len(last.ops) = 1 /\ last.ops[1].op = "RoundUpdate")
    /\ (last.handler = "onAcceptBlock" /\ Accepted) =>
        /\ IsSyncing(last.pre.counter)
        /\ counter = last.pre.counter - 1
        /\ ~Has(last.ops, "RoundUpdate")
        /\ IsSyncing(counter) => (last.spawned = <<>> /\ ~Has(last.ops, "go sendRoundUpdate"))
        /\ ~IsSyncing(counter) =>
              /\ last.spawned = <<getRoundUpdate(tip, p)>>
              /\ last.spawned[1].Round = tip.height + 1
              /\ Count(last.ops, "go sendRoundUpdate") = 1
              /\ last.ops[Len(last.ops)].op = "go sendRoundUpdate"

\* The second block of a sync of two was accepted and its round update started.
C9_Witness ==
    /\ last.handler = "onAcceptBlock" /\ Accepted
    /\ last.pre.counter = 1
    /\ counter = 0
    /\ tip.height = 2
    /\ Len(loader) = 2
    /\ Len(goroutines) = 1

\* C10 as stated: while the counter reports syncing, a certificate message is
\* discarded: no GetCandidate request, no AcceptBlock, and tip,
\* lastCertificate and lastCommittee keep their values.
C10_AsStated ==
    (last.handler = "handleCertificateMessage" /\ IsSyncing(last.pre.counter)) =>
        /\ ~Has(last.ops, "GetCandidate")
        /\ ~last.called
        /\ tip = last.pre.tip
        /\ lastCertificate = last.pre.lastCertificate
        /\ lastCommittee = last.pre.lastCommittee

\* C11: at most one AcceptBlock is in flight, and between its read of the tip
\* and its last write of the tip and the provisioners no other operation
\* (RebuildChain) writes the tip or the provisioners.
C11_AsStated == ~race.interleaved

\* C13: the chain created from a loader whose tip is the genesis block has a tip
\* of height 0 and the empty certificate as lastCertificate and has published
\* nothing; the Initialization message then makes it publish exactly one
\* RoundUpdate, for round 1, with the hash and the seed of the genesis block.
C13_GenesisBoot ==
    /\ last.handler = "New" =>
          /\ tip.height = 0
          /\ lastCertificate = EmptyCertificate
          /\ last.ops = <<>>
          /\ goroutines = <<>>
    /\ (last.handler = "onInitialization" /\ last.pre.tip = Genesis) =>
          /\ tip = Genesis
          /\ last.spawned = <<>>
          /\ last.ops = <<Op("RoundUpdate", [Round |-> 1, P |-> last.pre.p,
                                             Seed |-> Genesis.seed, Hash |-> Genesis.hash])>>

\* The freshly created chain handled the Initialization message.
C13_Witness ==
    /\ last.handler = "onInitialization"
    /\ last.pre.tip = Genesis
    /\ last.pre.lastCertificate = EmptyCertificate
    /\ last.pre.p = 0
    /\ last.pre.loader = <<>>
    /\ Len(last.ops) = 1

\* The steps of RebuildChain after Clear that can fail.
AfterClear == {"LoadTip", "PerformSanityCheck", "ClearWalletDatabase"}

\* C14: RebuildChain publishes StopConsensus before it clears the storage; when
\* Clear fails it returns an error without a panic and leaves tip, provisioners
\* and lastCertificate as they were; a failure of LoadTip, of the sanity check
\* or of ClearWalletDatabase ends in log.Panic and never in a return.
C14_RebuildChainFailures ==
    last.handler = "RebuildChain" =>
        /\ Len(last.ops) >= 2
        /\ last.ops[1].op = "StopConsensus"
        /\ last.ops[2].op = "Clear"
        /\ Count(last.ops, "StopConsensus") = 1
        /\ last.env.fault = "Clear" =>
              /\ last.err # NoErr
              /\ ~panicked
              /\ Len(last.ops) = 2
              /\ tip = last.pre.tip
              /\ p = last.pre.p
              /\ lastCertificate = last.pre.lastCertificate
              /\ loader = last.pre.loader
        /\ last.env.fault \in AfterClear =>
              /\ panicked
              /\ last.ops[Len(last.ops)].op = "log.Panic"
              /\ last.err = NoErr
        /\ last.env.fault = "none" =>
              /\ ~panicked
              /\ last.err = NoErr
              /\ ~Has(last.ops, "log.Panic")

\* ClearWalletDatabase failed in a rebuild of a chain that had accepted a block.
C14_Witness ==
    /\ last.handler = "RebuildChain"
    /\ last.env.fault = "ClearWalletDatabase"
    /\ last.pre.tip.height >= 1
    /\ panicked

\* C15 as stated: after RebuildChain returned successfully the tip is the genesis
\* block, the provisioner set is empty, lastCertificate is the empty certificate
\* and the last-committee keys are those of a new chain.
C15_AsStated ==
    (last.handler = "RebuildChain" /\ last.env.fault = "none") =>
        /\ tip = Genesis
        /\ p = 0
        /\ lastCertificate = EmptyCertificate
        /\ lastCommittee = New(Genesis).lastCommittee

\* C12: after the chain published StopConsensus it publishes no RoundUpdate
\* until the consensus loop has finalized the components of the stopped round,
\* so the components of two rounds are never alive together.
C12_AsStated == consensus # "overlap"

\* The two phases produced the same hash, it is not the empty one, and the votes
\* of both phases together are at least twice the quorum.
ReductionSucceeds ==
    /\ red.hash1 = red.hash2
    /\ red.hash1 # EmptyHash
    /\ red.events.n + red.eventsSecondStep.n >= 2 * Quorum

\* C17 as stated, the direction from the condition to the vote: a run of begin()
\* that ends without an error, in which both phases produced the same non-empty
\* hash and at least 2 * quorum votes were observed across both phases, has sent
\* a vote to the agreement channel.
C17_AsStated ==
    (red.pc = "returned" /\ red.err = NoErr /\ ReductionSucceeds) =>
        red.agreementVoteChan # <<>>

\* begin() returned after the timer ended both of its waits.
BothTimedOut == red.pc = "returned" /\ red.how1 = "timeout" /\ red.how2 = "timeout"

C19_AsStated ==
    /\ red.how1 = "stop" => (red.reductionVoteChan = <<>> /\ red.agreementVoteChan = <<>>)
    /\ red.how2 = "stop" => red.agreementVoteChan = <<>>

\* C20: an event is passed to process only after its signature over the voted
\* hash verified and its winning block hash equalled the reducer's; an event
\* that does not unmarshal, whose signature does not verify or whose winning
\* block hash differs is dropped with an error and not counted.
C20_VerifiedBeforeProcess ==
    LET c == sr.lastCollect
        verified == VerifyBLSSignature(c.event.PubKeyBLS, c.event.VotedHash, c.event.SignedHash)
    IN  /\ c.result = "processed" =>
              /\ c.event.ok
              /\ verified
              /\ c.event.winningBlockHash = c.winningBlockHash
              /\ sr.processed = c.processedBefore + 1
        /\ (c.result # "none" /\ (~c.event.ok \/ ~verified
                                   \/ c.event.winningBlockHash # c.winningBlockHash)) =>
              /\ c.result # "processed"
              /\ sr.processed = c.processedBefore
        /\ sr.collecting # NoEvent =>
              VerifyBLSSignature(sr.collecting.PubKeyBLS, sr.collecting.VotedHash,
                                 sr.collecting.SignedHash)

\* After an event was processed, an event signed over another hash was dropped.
C20_Witness ==
    /\ sr.lastCollect.result = "sig set reduction: BLS verification failed"
    /\ sr.lastCollect.event.SignedHash.by = sr.lastCollect.event.PubKeyBLS
    /\ sr.lastCollect.event.winningBlockHash = sr.lastCollect.winningBlockHash
    /\ sr.processed = 1

\* The handlers the Listen loop runs on a message.
MessageHandlers == {"onAcceptBlock", "handleCertificateMessage", "onInitialization"}

\* C16: once the root context is cancelled, Listen handles no further block,
\* certificate or initialization message.
C16_AsStated == cancelled => last.handler \notin MessageHandlers

\* C27: a block from the Block topic that finds the counter not syncing is
\* ignored (no StopConsensus, no call of AcceptBlock, tip, provisioners,
\* lastCertificate and counter as before), and every block that is processed
\* has StopConsensus published before AcceptBlock starts
C27_NotSyncingBlockIgnored ==
    last.handler = "onAcceptBlock" =>
        /\ ~IsSyncing(last.pre.counter) =>
              /\ ~Has(last.ops, "StopConsensus")
              /\ ~last.called
              /\ last.ops = <<>>
              /\ tip = last.pre.tip
              /\ p = last.pre.p
              /\ lastCertificate = last.pre.lastCertificate
              /\ counter = last.pre.counter
        /\ last.called =>
              /\ Len(last.ops) >= 2
              /\ last.ops[1].op = "StopConsensus"
              /\ last.ops[2].op = "SanityCheckBlock"
              /\ Count(last.ops, "StopConsensus") = 1

\* the well-formed successor of a tip beyond genesis arrived and was ignored
C27_Witness ==
    /\ last.handler = "onAcceptBlock"
    /\ ~IsSyncing(last.pre.counter)
    /\ tip.height = 1
    /\ last.blk.height = 2
    /\ SanityCheckBlock(tip, last.blk) = NoErr
    /\ loader = <<tip>>
    /\ ~last.called

\* C28 as stated: with the loop idle and the tip beyond genesis, lastCertificate
\* is the certificate of the tip and lastCommittee the committee that finalized
\* it, and a certificate message whose candidate cannot be fetched or whose
\* block is rejected leaves both as they were
C28_AsStated ==
    (~panicked /\ last.pre.tip.height # 0 /\ tip.height # 0) =>
        /\ lastCertificate = tip.cert
        /\ lastCommittee = tip.height
        /\ (last.handler = "handleCertificateMessage" /\ last.err # NoErr) =>
              /\ lastCertificate = last.pre.lastCertificate
              /\ lastCommittee = last.pre.lastCommittee

\* C29 as stated: a certificate message whose GetCandidate request fails, or
\* whose candidate AcceptBlock returns an error for, leaves the tip unchanged
\* and publishes and starts no RoundUpdate; one whose candidate is accepted
\* starts exactly one RoundUpdate, for round = accepted height + 1, after the
\* accept
C29_AsStated ==
    last.handler = "handleCertificateMessage" =>
        /\ last.err # NoErr =>
              /\ tip = last.pre.tip
              /\ ~Has(last.ops, "RoundUpdate")
              /\ ~Has(last.ops, "go sendRoundUpdate")
              /\ last.spawned = <<>>
        /\ last.err = NoErr =>
              /\ last.called
              /\ tip = last.blk
              /\ Len(last.spawned) = 1
              /\ last.spawned[1].Round = last.blk.height + 1
              /\ Count(last.ops, "go sendRoundUpdate") = 1
              /\ last.ops[Len(last.ops)].op = "go sendRoundUpdate"

\* The operations of eventStopWatch.fetch that end a wait.
FetchOps == {"timeout", "collectedVotes", "stop"}

\* The run of begin() got past its first wait.
PhaseOneFinished == red.pc \in {"phase2", "returned"} /\ red.how1 # "none"

\* The run of begin() reached its second wait.
PhaseTwoReached == red.pc = "phase2" \/ (red.pc = "returned" /\ red.how2 # "none")

\* The hand-over from phase 1 to phase 2 in the run of begin(): one vote with
\* the phase-1 hash, sent after the first wait and the step increment and
\* before the second wait, and that hash is the one compared in phase 2.
PhaseSequencing ==
    /\ red.reductionVoteChan = <<red.hash1>>
    /\ red.hash1 = (IF red.events.n = 0 THEN EmptyHash ELSE red.events.hash)
    /\ Cardinality({i \in DOMAIN red.ops : red.ops[i] = "reductionVoteChan"}) = 1
    /\ Len(red.ops) >= 3
    /\ red.ops[1] \in FetchOps
    /\ red.ops[2] = "Step++"
    /\ red.ops[3] = "reductionVoteChan"
    /\ Len(red.ops) >= 4 => red.ops[4] \in FetchOps
    /\ \A i \in DOMAIN red.ops : (i # 1 /\ red.ops[i] \in FetchOps) => i = 4
    /\ red.step > red.stepAtBegin
    /\ red.agreementVoteChan # <<>> =>
          /\ red.agreementVoteChan = <<red.hash2>>
          /\ red.hash2 = red.reductionVoteChan[1]
    /\ (red.pc = "returned" /\ red.err = NoErr) =>
          (red.agreementVoteChan # <<>>
              <=> isReductionSuccessful(red.reductionVoteChan[1], red.hash2, red.events))

ValidSettings ==
    getTxSettings(sa.settings).amount # 0 /\ getTxSettings(sa.settings).lockTime # 0

\* C25 as stated: on every round update the running automaton issues a stake
\* request if and only if round + 100 >= the recorded expiry height, and the
\* first round update after start always issues one
C25_AsStated ==
    sa.last.Round # 0 =>
        /\ sa.last.requested <=> (sa.last.Round + renewalOffset >= sa.last.stakeEndHeight)
        /\ sa.prev.Round = 0 => sa.last.requested

\* C25: on every round update the running automaton calls sendStake if and
\* only if round + 100 >= the recorded expiry height, and sendStake issues the
\* request if and only if the configured amount and lock time are both not 0;
\* the expiry height starts at 1, so the first round update always calls
\* sendStake
C25_RenewalCondition ==
    /\ sa.loops = 0 => (sa.last = NoRoundUpdate /\ sa.stakeEndHeight = 1)
    /\ sa.last.Round # 0 =>
          /\ sa.height = sa.last.Round
          /\ sa.last.called <=> (sa.last.Round + renewalOffset >= sa.last.stakeEndHeight)
          /\ sa.last.requested <=> (sa.last.called /\ ValidSettings)
          /\ sa.prev.Round = 0 => (sa.last.stakeEndHeight = 1 /\ sa.last.called)

\* a round update that finds the transaction far from expiry: no request
C25_Witness ==
    /\ ValidSettings
    /\ sa.prev.requested /\ sa.prev.err = NoErr
    /\ sa.last.Round = sa.prev.Round + 1
    /\ ~sa.last.called
    /\ ~sa.last.requested

\* The lock time the request of the round update before the last one asked for.
LockTime == getTxSettings(sa.settings).lockTime

\* The request of round h succeeded and the next round update was for h + 1.
SucceededThenNextRound ==
    /\ sa.prev.requested /\ sa.prev.err = NoErr
    /\ sa.last.Round = sa.prev.Round + 1

\* C26 as stated: for every configured lock time, after a request succeeded at
\* round h the round update for round h + 1 sends no transaction
C26_AsStated == SucceededThenNextRound => ~sa.last.requested

\* C26: after a request succeeded at round h the recorded expiry height is
\* h + lock time, and a round update for a round r with r + 100 < h + lock time
\* issues no further request; the round update for h + 1 sends no transaction
\* exactly when the lock time exceeds 101
C26_NoRequestShortlyAfter ==
    (sa.prev.requested /\ sa.prev.err = NoErr /\ sa.last.Round # 0) =>
        /\ sa.last.stakeEndHeight = sa.prev.Round + LockTime
        /\ sa.last.Round + renewalOffset < sa.prev.Round + LockTime => ~sa.last.requested
        /\ sa.last.Round = sa.prev.Round + 1 =>
              (~sa.last.requested <=> LockTime > renewalOffset + 1)

\* the first round update sent a request, the second one, for the next round
\* and with a lock time of 102, none
C26_Witness ==
    /\ sa.prev.Round = 1 /\ sa.prev.requested /\ sa.prev.err = NoErr
    /\ sa.last.Round = 2
    /\ LockTime = renewalOffset + 2
    /\ sa.stakeEndHeight = renewalOffset + 3
    /\ ~sa.last.requested

\* The bytes a marshalled certificate consists of, field by field.
CertificateLayout(b, c) ==
    /\ Len(b) = 83
    /\ SubSeq(b, 1, 33) = c.StepOneBatchedSig
    /\ SubSeq(b, 34, 66) = c.StepTwoBatchedSig
    /\ b[67] = c.Step
    /\ SubSeq(b, 68, 75) = c.StepOneCommittee
    /\ SubSeq(b, 76, 83) = c.StepTwoCommittee

\* C24: unmarshalling a marshalled certificate or header yields the original,
\* for every certificate with two 33-byte signatures and every header with
\* 32-byte hashes and a 33-byte seed, and the bytes are version, height,
\* timestamp, prev_hash, seed, tx_root, certificate, hash in this order
C24_MarshalRoundTrip ==
    /\ wire.pc # "new" => wire.r.err = NoErr
    /\ (wire.pc = "marshalled" /\ wire.what = "certificate") =>
          CertificateLayout(wire.r.buf, wire.value)
    /\ (wire.pc = "marshalled" /\ wire.what = "header") =>
          LET b == wire.r.buf
              h == wire.value
          IN  /\ Len(b) = 229
              /\ b[1] = h.Version
              /\ SubSeq(b, 2, 9) = h.Height
              /\ SubSeq(b, 10, 17) = Uint64(h.Timestamp)
              /\ SubSeq(b, 18, 49) = h.PrevBlockHash
              /\ SubSeq(b, 50, 82) = h.Seed
              /\ SubSeq(b, 83, 114) = h.TxRoot
              /\ CertificateLayout(SubSeq(b, 115, 197), h.Certificate)
              /\ SubSeq(b, 198, 229) = h.Hash
    /\ wire.pc = "unmarshalled" =>
          /\ wire.out = wire.value
          /\ wire.r.buf = <<>>

\* a header with a negative timestamp, the largest version and a certificate
\* that is not the empty one came back from the buffer
C24_Witness ==
    /\ wire.pc = "unmarshalled" /\ wire.what = "header"
    /\ wire.value.Timestamp = -1
    /\ wire.value.Version = 255
    /\ wire.value.Certificate.StepTwoCommittee = Fill(8, 255)
    /\ wire.value.Seed = Ramp(33)
    /\ wire.out.Timestamp = -1
    /\ wire.out.Certificate = wire.value.Certificate

RECURSIVE SumVotes(_, _)
SumVotes(committee, members) ==
    IF members = {} THEN 0
    ELSE LET m == CHOOSE x \in members : TRUE IN
         committee[m] + SumVotes(committee, members \ {m})

\* C23: for every provisioner set with positive total active stake and every
\* target size the vote weights of the committee sum to the target size, and
\* every member in the committee holds at least one vote (and is a member of
\* the set with active stake)
C23_VotesSumToSize ==
    (sortition.pc # "new" /\ TotalActiveStake(sortition.provisioners, sortition.round) > 0) =>
        /\ sortition.err = NoErr
        /\ SumVotes(sortition.committee, DOMAIN sortition.committee) = sortition.size
        /\ \A m \in DOMAIN sortition.committee :
              /\ sortition.committee[m] >= 1
              /\ m \in 1..Len(sortition.provisioners)
              /\ ActiveStake(sortition.provisioners[m], sortition.round) > 0

\* a committee of the largest target size over three members, one of them with
\* an expired stake, in which one member holds two votes and another one vote
C23_Witness ==
    /\ sortition.pc = "created"
    /\ sortition.size = MaxSize
    /\ Len(sortition.provisioners) = 3
    /\ \E m \in 1..3 : ActiveStake(sortition.provisioners[m], sortition.round) = 0
    /\ Cardinality(DOMAIN sortition.committee) = 2
    /\ \E m \in DOMAIN sortition.committee : sortition.committee[m] = MaxSize - 1

\* The results emitted for round r.
EmittedFor(r) == {i \in DOMAIN sel.emitted : sel.emitted[i].round = r}

\* C21: once a round update started the selector and a valid score arrived, no
\* result is emitted while the timer runs, and when the timer expires exactly
\* one result is emitted, the highest score among the verified events
C21_BestScoreAtExpiry ==
    /\ sel.state = "Collecting" =>
          /\ sel.timers = {sel.round}
          /\ EmittedFor(sel.round) = {}
          /\ sel.verified # {} =>
                (sel.best \in sel.verified /\ \A v \in sel.verified : sel.best >= v)
    /\ (sel.state \in {"Selected", "Empty"} /\ sel.verified # {}) =>
          /\ sel.state = "Selected"
          /\ sel.timers = {}
          /\ Cardinality(EmittedFor(sel.round)) = 1
          /\ sel.emitted[Len(sel.emitted)].round = sel.round
          /\ sel.emitted[Len(sel.emitted)].score \in sel.verified
          /\ \A v \in sel.verified : sel.emitted[Len(sel.emitted)].score >= v
    /\ \A i \in DOMAIN sel.emitted : Cardinality(EmittedFor(sel.emitted[i].round)) = 1

\* three valid scores arrived, the lowest last, and the highest was emitted
C21_Witness ==
    /\ sel.state = "Selected"
    /\ sel.verified = 1..MaxScore
    /\ sel.emitted = <<[round |-> sel.round, score |-> MaxScore]>>

\* C22: a round update that arrives while the selector collects cancels the
\* timer of the interrupted round and resets the collected scores, and no
\* result is ever emitted for an interrupted round
C22_InterruptedRoundSilent ==
    /\ \A r \in sel.interrupted :
          /\ EmittedFor(r) = {}
          /\ r \notin sel.timers
          /\ r < sel.round
    /\ \A i \in DOMAIN sel.emitted : sel.emitted[i].round \notin sel.interrupted
    /\ (sel.state = "Collecting" /\ sel.verified = {}) => sel.best = 0
    /\ sel.timers \subseteq {sel.round}

\* round 1 was interrupted after valid scores had arrived, round 2 ran to its
\* timeout and emitted its own best score
C22_Witness ==
    /\ sel.interrupted = {1}
    /\ sel.round = 2
    /\ sel.state = "Selected"
    /\ sel.emitted = <<[round |-> 2, score |-> 1]>>

\* C31: every candidate block Collect sent has the round as its height, the
\* round update's hash as its previous-block hash, version 0, an empty
\* certificate, and the coinbase transaction first followed by the mempool's
\* transactions in the order of the answer; when the mempool request fails
\* Collect sends neither a score nor a candidate.
CandidatesSent == {i \in DOMAIN bg.sent : bg.sent[i].topic = "Candidate"}

C31_CandidateShape ==
    /\ \A i \in CandidatesSent :
          LET blk == bg.sent[i].blk
          IN  /\ blk.Header.Height = bg.roundInfo.Round
              /\ blk.Header.PrevBlockHash = bg.roundInfo.Hash
              /\ blk.Header.Version = 0
              /\ blk.Header.Certificate = EmptyWireCertificate
              /\ Len(blk.Txs) >= 1
              /\ Head(blk.Txs).TxType = "coinbase"
              /\ Tail(blk.Txs) = (IF bg.rpcBus THEN bg.mempool ELSE <<>>)
    /\ (bg.rpcBus /\ bg.fault = "GetMempoolTxs") => bg.sent = <<>>

C31_Witness ==
    /\ bg.rpcBus
    /\ CandidatesSent # {}
    /\ Len(bg.mempool) = MaxTxs
    /\ bg.mempool[1] # bg.mempool[2]
    /\ bg.roundInfo.Round = 2

\* C32: after any Store and Clear calls no step of the collector holds two
\* events that are Equal; a Store of an event the step already holds changes
\* nothing; Store returns the number of events the step holds after the
\* call; and Store leaves the lists of the other steps as they were.
NoEqualEvents(events) ==
    \A s \in CollectorSteps : \A i, j \in DOMAIN events[s] :
        i # j => ~Equal(events[s][i], events[s][j])

C32_StoreIgnoresDuplicates ==
    /\ NoEqualEvents(sec.events)
    /\ sec.op = "Store" =>
          /\ Contains(sec.pre, sec.event, sec.step) => sec.events = sec.pre
          /\ sec.ret = Len(sec.events[sec.step])
          /\ \A s \in CollectorSteps \ {sec.step} :
                sec.events[s] = sec.pre[s]

C32_Witness ==
    /\ sec.op = "Store"
    /\ Contains(sec.pre, sec.event, sec.step)
    /\ \A i \in DOMAIN sec.pre[sec.step] : sec.pre[sec.step][i] # sec.event
    /\ sec.ret = MaxSenders
    /\ \E s \in CollectorSteps \ {sec.step} : sec.events[s] # <<>>

\* C33: once Accept received a quit message the subscriber has removed both
\* of its subscriptions and has returned, and Collect is not called again;
\* until then Collect is called with the messages in the order they were
\* published on the topic.
IsPrefix(s, t) == Len(s) <= Len(t) /\ SubSeq(t, 1, Len(s)) = s

C33_QuitEndsAccept ==
    /\ [](es.pc = "returned" => es.subscribed = {})
    /\ [](IsPrefix(es.collected, es.published))
    /\ [][es.pc = "returned" => es'.collected = es.collected]_vars

C33_Witness ==
    /\ es.pc = "returned"
    /\ Len(es.collected) >= 2
    /\ es.msgChan # <<>>

\* C34: NewSigSetReducer returns the reducer to its caller without waiting
\* for an event: the call returns even when nothing is ever published.
C34_AsStated == <>(nsr = "returned")

\* C35: in the legacy chain a block whose header check fails makes
\* verifyBlock return an error, so AcceptBlock does not store it and
\* ForgeCandidateBlock does not return it.
C35_AsStated ==
    legacy.headerErr # NoErr =>
        /\ ~legacy.stored
        /\ ~legacy.returned

\* C36 as stated: between chain operations the tip is the block the loader
\* appended last, or the genesis block when the loader was cleared, whatever
\* AcceptBlock and RebuildChain calls, failing ones included, came before.
C36_AsStated ==
    ~panicked =>
        tip = (IF loader = <<>> THEN Genesis ELSE loader[Len(loader)])

\* C37 as stated: the RoundUpdate publications are observed in non-decreasing
\* round order: none is for a lower round than the publication before it.
C37_AsStated == published.previous <= published.latest

\* C38 as stated: however often AutomateConsensusTxs is called, concurrent
\* calls included, the automaton starts at most one round-update subscription
\* and at most one Listen loop.
C38_AsStated == sa.subscriptions <= 1 /\ sa.loops <= 1

\* C40: a failed send (an error or a timeout of the request bus, or settings
\* with amount 0 or lock time 0, for which no request is issued) leaves the
\* recorded expiry height as it was and the Listen loop running, and the next
\* round update calls sendStake again; the expiry height changes only with a
\* successful request, to lock time + current round.
SendFailed(u) == u.called /\ u.err # NoErr

C40_FailedSendRetried ==
    /\ SendFailed(sa.last) =>
          /\ sa.stakeEndHeight = sa.last.stakeEndHeight
          /\ sa.loops > 0
          /\ ~ValidSettings <=> ~sa.last.requested
    /\ (SendFailed(sa.prev) /\ sa.last.Round >= sa.prev.Round) => sa.last.called
    /\ sa.last.Round # 0 =>
          (sa.stakeEndHeight # sa.last.stakeEndHeight
              => (sa.last.requested /\ sa.last.err = NoErr))
    /\ (sa.last.requested /\ sa.last.err = NoErr) =>
          sa.stakeEndHeight = LockTime + sa.last.Round

\* the request of one round timed out, the next round's request succeeded
C40_Witness ==
    /\ SendFailed(sa.prev)
    /\ sa.prev.requested
    /\ sa.last.Round = sa.prev.Round + 1
    /\ sa.last.requested /\ sa.last.err = NoErr
    /\ sa.stakeEndHeight = LockTime + sa.last.Round
    /\ sa.stakeEndHeight # sa.prev.stakeEndHeight

\* C39 as stated: end() never blocks, whenever it is called: neither of its
\* two sends finds its stop channel full; and a stop signal left by an
\* earlier end() does not end the phase-1 wait of a later begin(): a phase-1
\* wait ended by the stop signal started with an empty stop channel.
C39_AsStated ==
    /\ ~(red.endpc = "firstStep" /\ red.firstStep.stopChan = 1)
    /\ ~(red.endpc = "secondStep" /\ red.secondStep.stopChan = 1)
    /\ red.how1 = "stop" => red.stopAtBegin = 0

====
